---- MODULE Spec2Model ----
(***************************************************************************)
(* Model of the language-server bridge of jkrperson/tentacles:             *)
(*   - the Content-Length framing codec        (electron/lspBridge.ts)     *)
(*   - the process supervisor LspManager       (electron/updater.ts)       *)
(*     driven by the renderer store            (src/stores/lspStore.ts)    *)
(*   - the client session hook useLspClient    (src/hooks/useLspClient.ts) *)
(* Bytes are integers 0..255, strings are sequences of code points.        *)
(***************************************************************************)
EXTENDS Integers, Sequences, FiniteSets, TLC

VARIABLES
    \* ---- framing codec ----
    stream,     \* the items the language server writes to stdout (input)
    wire,       \* bytes of the stream not yet handed to LspMessageParser.write
    buffer,     \* LspMessageParser.buffer
    emitted,    \* payloads passed to onMessage so far, in order
    loopExceeded, \* TRUE iff some write ran its parse loop out of iterations
    \* ---- process supervisor (main process) ----
    servers,    \* LspManager.servers: key -> registered instance (0 = no entry)
    nCalls,     \* lsp:start invocations made so far; call c creates instance c
    call,       \* per lsp:start invocation: key, progress, returned port
    proc,       \* per instance: state of the spawned subprocess
    wss,        \* per instance: state of its WebSocket.Server
    handlers,   \* per instance: 'exit'/'error' listeners attached
    diedEarly,  \* per instance: exited or failed with no listener attached
    quitting,   \* app 'will-quit' has run
    \* ---- renderer store ----
    storeServers, \* useLspStore.servers: key -> [status, port]
    stopCalls,  \* per key: stopServer calls awaiting the lsp:stop reply
    \* ---- transport bridge of each instance ----
    conn,       \* per instance: wss.clients, the sockets that are OPEN
    received,   \* per instance and client: messages client.send() delivered
    nOut,       \* per instance: messages the stdout parser has decoded
    stdin,      \* per instance: bytes written to lsProcess.stdin
    accepted,   \* per instance: client messages that met a writable stdin
    stopSeen,   \* per lsp:start call: a stop for its key ran during its wait
    \* ---- client session (one useLspClient hook instance) ----
    nSess,      \* effect runs so far; run s owns WebSocket s
    cur,        \* the effect run that is mounted (0 = none)
    ws,         \* per effect run: readyState of its WebSocket
    requestId,  \* requestIdRef.current
    pendingRequests, \* keys of pendingRequestsRef.current
    req,        \* per request id: method and the effect run that sent it
    promise,    \* per request id: state of the promise sendRequest returned
    settles,    \* per request id: calls made to its resolve/reject callbacks
    initialized, \* initializedRef.current
    providers,  \* effect runs whose providers are registered (disposablesRef)
    sent,       \* per WebSocket: messages the client sent, in order
    answered,   \* request ids the server has produced a response for
    fromServer, \* per WebSocket: server messages in flight to the client
    handledIds, \* per WebSocket: ids of the answers onmessage has run for
    nStray,     \* responses sent by the server that answer no open request
    filePath,   \* per effect run: the `filePath` option it was started with
    caps,       \* serverCapabilitiesRef.current: NullCaps or the advertised features
    openDocs,   \* openDocsRef.current, in insertion order
    versions,   \* versionRef.current: path -> version (0 = no entry)
    text,       \* content revision of the editor's model
    timers,     \* pending setTimeout callbacks of the debounced sendDidChange
    nSaves,     \* 'lsp:didSave' events that passed the guard of handleDidSave
    nServerRequests, \* workspace/applyEdit requests the server has sent
    applied,    \* pushEditOperations calls made: [sock, id, path]
    nNotReady,  \* provider calls that returned at the Ready guard
    \* ---- coordinate and diagnostic conversions (lspConversions.ts) ----
    convIn,     \* the value handed to the first conversion, with its kind
    convMid,    \* the result of the first conversion
    convOut,    \* the result of converting convMid back
    \* ---- two hook instances on one bridge (useLspClient x2, LspManager) ----
    hookRequestId,\* per hook instance: its requestIdRef.current
    hookPending,\* per hook instance: keys of its pendingRequestsRef.current
    hookPromise,\* per hook instance and id: promise state and the request whose response settled it
    serverInbox,\* requests written to the shared stdin and not yet answered
    hookInbound,\* per hook instance: server messages sent to its socket
    \* ---- diagnostic markers (owner 'lsp') of the editor's models ----
    markers,    \* per path: markers of owner 'lsp' on its model (their number)
    nPublish,   \* publishDiagnostics notifications the server has sent
    \* ---- editor panel (EditorPanel.tsx auto-start effect) ----
    shown,      \* key of the shown file's (lspLanguageId, activeProjectId), or NoLsp
    lspPort,    \* the lspPort state of EditorPanel (0 = null)
    thens,      \* pending `.then` callbacks of the auto-start effect runs
    nSelects    \* runs of the auto-start effect so far

codecVars == <<stream, wire, buffer, emitted, loopExceeded>>

trafficVars == <<received, nOut, stdin, accepted>>

supVars == <<servers, nCalls, call, proc, wss, handlers, diedEarly, quitting,
             storeServers, stopCalls, conn, received, nOut, stdin, accepted,
             stopSeen>>

clientVars == <<nSess, cur, ws, requestId, pendingRequests, req, promise,
                settles, initialized, providers, sent, answered, fromServer,
                handledIds, nStray, filePath, caps, openDocs, versions, text,
                timers, nSaves, nServerRequests, applied, nNotReady>>

convVars == <<convIn, convMid, convOut>>

sharedVars == <<hookRequestId, hookPending, hookPromise, serverInbox, hookInbound>>

diagVars == <<markers, nPublish>>

editorVars == <<shown, lspPort, thens, nSelects>>

vars == <<stream, wire, buffer, emitted, loopExceeded,
          servers, nCalls, call, proc, wss, handlers, diedEarly, quitting,
          storeServers, stopCalls, conn, received, nOut, stdin, accepted,
          stopSeen,
          nSess, cur, ws, requestId, pendingRequests, req, promise,
          settles, initialized, providers, sent, answered, fromServer,
          handledIds, nStray, filePath, caps, openDocs, versions, text,
          timers, nSaves, nServerRequests, applied, nNotReady,
          convIn, convMid, convOut,
          hookRequestId, hookPending, hookPromise, serverInbox, hookInbound,
          markers, nPublish,
          shown, lspPort, thens, nSelects>>

(***************************************************************************)
(* Bounds                                                                  *)
(***************************************************************************)
MaxPayloadLen == 3    \* characters of an enumerated single payload
MaxFrames == 2        \* frames in a stream of several encoded payloads
MaxBlocks == 1        \* consecutive header blocks without a length
MaxCalls == 2         \* lsp:start invocations reaching the main process
MaxStopCalls == 1     \* stopServer calls in flight per key
MaxClients == 2       \* sockets connected to one listener at a time
MaxTraffic == 4       \* messages relayed by the bridges, both directions
MaxSessions == 2      \* effect runs (connections) of one hook instance
MaxRequestId == 3     \* request ids issued by one hook instance
MaxQueue == 1         \* server messages in flight on one connection
MaxStray == 1         \* unmatched responses the server sends
MaxEvents == 2        \* editor events, unmatched responses and effect re-runs
MaxCoord == 3         \* largest line and column of an enumerated position
MaxHookRequests == 2  \* requests each of the hook instances on one bridge sends
MaxDiags == 1         \* diagnostics in one publishDiagnostics notification
MaxSelects == 3       \* runs of the editor panel's auto-start effect

(***************************************************************************)
(* Generic sequence helpers                                                *)
(***************************************************************************)
Min(a, b) == IF a < b THEN a ELSE b

SeqsUpTo(S, n) == UNION {[1..k -> S] : k \in 0..n}

RECURSIVE Flatten(_)
Flatten(ss) == IF ss = <<>> THEN <<>> ELSE Head(ss) \o Flatten(Tail(ss))

\* Buffer.subarray(from) / Buffer.subarray(from, to), 0-based, end exclusive
subarray(buf, from, to) == SubSeq(buf, from + 1, Min(to, Len(buf)))

\* Buffer.indexOf(needle): 0-based offset of the first occurrence, or -1
indexOf(buf, needle) ==
    LET hits == {i \in 0..(Len(buf) - Len(needle)) :
                    SubSeq(buf, i + 1, i + Len(needle)) = needle}
    IN  IF hits = {} THEN -1
        ELSE CHOOSE i \in hits : \A j \in hits : i <= j

(***************************************************************************)
(* Character encodings                                                     *)
(***************************************************************************)
\* Buffer.from(str, 'utf-8') for one code point below U+10000
utf8EncodeChar(cp) ==
    IF cp < 128 THEN <<cp>>
    ELSE IF cp < 2048 THEN <<192 + (cp \div 64), 128 + (cp % 64)>>
    ELSE <<224 + (cp \div 4096), 128 + ((cp \div 64) % 64), 128 + (cp % 64)>>

RECURSIVE utf8Encode(_)
utf8Encode(str) ==
    IF str = <<>> THEN <<>>
    ELSE utf8EncodeChar(Head(str)) \o utf8Encode(Tail(str))

IsCont(b) == b >= 128 /\ b < 192

\* Buffer.toString('utf-8'): ill-formed input decodes to U+FFFD (65533)
RECURSIVE utf8Decode(_)
utf8Decode(bytes) ==
    IF bytes = <<>> THEN <<>>
    ELSE LET b1 == bytes[1] IN
         IF b1 < 128 THEN <<b1>> \o utf8Decode(Tail(bytes))
         ELSE IF b1 >= 194 /\ b1 < 224 /\ Len(bytes) >= 2 /\ IsCont(bytes[2])
              THEN <<(b1 - 192) * 64 + (bytes[2] - 128)>>
                   \o utf8Decode(SubSeq(bytes, 3, Len(bytes)))
         ELSE IF b1 >= 224 /\ b1 < 240 /\ Len(bytes) >= 3
                 /\ IsCont(bytes[2]) /\ IsCont(bytes[3])
                 /\ (b1 - 224) * 4096 + (bytes[2] - 128) * 64 >= 2048
              THEN <<(b1 - 224) * 4096 + (bytes[2] - 128) * 64 + (bytes[3] - 128)>>
                   \o utf8Decode(SubSeq(bytes, 4, Len(bytes)))
         ELSE <<65533>> \o utf8Decode(Tail(bytes))

\* Buffer.toString('ascii'): the high bit of every byte is cleared
toAscii(bytes) == [i \in 1..Len(bytes) |-> bytes[i] % 128]

\* `${n}`: decimal digits of a natural number, as ASCII
RECURSIVE decimal(_)
decimal(n) == IF n < 10 THEN <<48 + n>> ELSE decimal(n \div 10) \o <<48 + (n % 10)>>

\* parseInt(digits, 10) for a non-empty run of ASCII digits
RECURSIVE parseInt(_)
parseInt(digits) ==
    IF digits = <<>> THEN 0
    ELSE parseInt(SubSeq(digits, 1, Len(digits) - 1)) * 10
         + (digits[Len(digits)] - 48)

(***************************************************************************)
(* lspBridge.ts                                                            *)
(***************************************************************************)
HEADER_SEPARATOR == <<13, 10, 13, 10>>                      \* '\r\n\r\n'

ContentLengthLabel ==                                       \* 'Content-Length: '
    <<67, 111, 110, 116, 101, 110, 116, 45, 76, 101, 110, 103, 116, 104, 58, 32>>

encodeMessage_charCount(json) ==
    ContentLengthLabel \o decimal(Len(json)) \o HEADER_SEPARATOR \o utf8Encode(json)

encodeMessage(json) ==
    LET body == utf8Encode(json)
        header == ContentLengthLabel \o decimal(Len(body)) \o HEADER_SEPARATOR
    IN  header \o body

toLower(c) == IF c >= 65 /\ c <= 90 THEN c + 32 ELSE c

IsSpace(c) == c \in {9, 10, 11, 12, 13, 32}
IsDigit(c) == c >= 48 /\ c <= 57

\* CONTENT_LENGTH_RE = /Content-Length:\s*(\d+)/i applied with exec():
\* the captured digits of the leftmost match, or <<>> when nothing matches
CONTENT_LENGTH_RE(str) ==
    LET label == [i \in 1..15 |-> toLower(ContentLengthLabel[i])]
        n == Len(str)
        \* first index at or after i holding a non-space (n + 1 if none)
        skip(i) == IF \E j \in i..n : ~IsSpace(str[j])
                   THEN CHOOSE j \in i..n :
                            ~IsSpace(str[j]) /\ \A k \in i..(j - 1) : IsSpace(str[k])
                   ELSE n + 1
        \* last index of the digit run starting at i
        runEnd(i) == CHOOSE j \in i..n :
                        /\ \A k \in i..j : IsDigit(str[k])
                        /\ (j = n \/ ~IsDigit(str[j + 1]))
        matchesAt(s) ==
            /\ s + 14 <= n
            /\ \A i \in 1..15 : toLower(str[s + i - 1]) = label[i]
            /\ skip(s + 15) <= n
            /\ IsDigit(str[skip(s + 15)])
        starts == {s \in 1..n : matchesAt(s)}
    IN  IF starts = {} THEN <<>>
        ELSE LET s == CHOOSE x \in starts : \A y \in starts : x <= y
                 d == skip(s + 15)
             IN  SubSeq(str, d, runEnd(d))

\* `this.buffer.subarray(headerEnd + HEADER_SEPARATOR.length)`: the buffer
\* after a header block without a length has been dropped
skipMalformed_keepSeparator(buf, headerEnd) == subarray(buf, headerEnd, Len(buf))

skipMalformed(buf, headerEnd) ==
    subarray(buf, headerEnd + Len(HEADER_SEPARATOR), Len(buf))

\* negation of `this.buffer.byteLength < messageEnd`
bodyComplete_always(buf, messageEnd) == TRUE

bodyComplete(buf, messageEnd) == ~(Len(buf) < messageEnd)

\* `this.buffer.subarray(messageEnd)`: the buffer after a message was cut off
afterMessage_dropRest(buf, messageEnd) == <<>>

afterMessage(buf, messageEnd) == subarray(buf, messageEnd, Len(buf))

\* One pass of the body of `while (true)` in LspMessageParser.parse.
\* fuel bounds the number of passes; exceeded reports that it ran out.
RECURSIVE parseLoop(_, _, _)
parseLoop(buf, msgs, fuel) ==
    IF fuel = 0 THEN [buffer |-> buf, msgs |-> msgs, exceeded |-> TRUE]
    ELSE
    LET headerEnd == indexOf(buf, HEADER_SEPARATOR) IN
    IF headerEnd = -1 THEN [buffer |-> buf, msgs |-> msgs, exceeded |-> FALSE]
    ELSE
    LET headerStr == toAscii(subarray(buf, 0, headerEnd))
        match == CONTENT_LENGTH_RE(headerStr)
    IN
    IF match = <<>>
    THEN parseLoop(skipMalformed(buf, headerEnd), msgs, fuel - 1)
    ELSE
    LET contentLength == parseInt(match)
        bodyStart == headerEnd + Len(HEADER_SEPARATOR)
        messageEnd == bodyStart + contentLength
    IN
    IF ~bodyComplete(buf, messageEnd)
    THEN [buffer |-> buf, msgs |-> msgs, exceeded |-> FALSE]
    ELSE parseLoop(afterMessage(buf, messageEnd),
                   Append(msgs, utf8Decode(subarray(buf, bodyStart, messageEnd))),
                   fuel - 1)

\* LspMessageParser.parse on the current buffer.  Every pass that does not
\* return removes at least the four separator bytes, so Len(buf) + 1 passes
\* are enough for any terminating run.
parse(buf) == parseLoop(buf, <<>>, Len(buf) + 1)

(***************************************************************************)
(* Codec inputs: what a language server may write to its stdout            *)
(***************************************************************************)
Alphabet == {97, 8364, 13, 10}           \* 'a', U+20AC (three UTF-8 bytes), CR, LF

ExtraHeader == <<65, 58, 32, 98>>        \* 'A: b'
CRLF == <<13, 10>>

FrameKinds == {"plain", "extraBefore", "extraAfter", "lowerCase"}
BlockKinds == {"noLength", "noDigits", "empty"}

\* the bytes a server writes for one item
itemBytes(it) ==
    LET body == utf8Encode(it.payload)
        cl == ContentLengthLabel \o decimal(Len(body))
    IN  CASE it.kind = "plain" -> encodeMessage(it.payload)
          [] it.kind = "extraBefore" ->
                ExtraHeader \o CRLF \o cl \o HEADER_SEPARATOR \o body
          [] it.kind = "extraAfter" ->
                cl \o CRLF \o ExtraHeader \o HEADER_SEPARATOR \o body
          [] it.kind = "lowerCase" ->
                [i \in 1..Len(cl) |-> toLower(cl[i])] \o HEADER_SEPARATOR \o body
          [] it.kind = "noLength" -> ExtraHeader \o HEADER_SEPARATOR
          [] it.kind = "noDigits" ->
                ContentLengthLabel \o <<120>> \o HEADER_SEPARATOR
          [] it.kind = "empty" -> HEADER_SEPARATOR

IsFrame(it) == it.kind \in FrameKinds

\* payloads of the frames of longer streams: '', 'a', U+00E9 'a'
SamplePayloads == {<<>>, <<97>>, <<233, 97>>}

\* payloads with the separator inside the body and with a two-digit length
SpecialPayloads ==
    {<<13, 10, 13, 10>>, <<97, 13, 10, 13, 10, 97>>, <<8364, 8364, 8364, 8364>>}

plainFrame(p) == [kind |-> "plain", payload |-> p]

\* one encoded payload
SingleStreams ==
    {<<plainFrame(p)>> : p \in SeqsUpTo(Alphabet, MaxPayloadLen) \cup SpecialPayloads}

\* several encoded payloads back to back
PlainStreams ==
    UNION {[1..n -> {plainFrame(p) : p \in SamplePayloads}] : n \in 2..MaxFrames}

\* header blocks without a length, then a frame, possibly after a frame
HeaderStreams ==
    {pre \o blocks \o <<[kind |-> k, payload |-> p]>> :
        pre \in {<<>>, <<plainFrame(<<97>>)>>},
        blocks \in UNION {[1..n -> {[kind |-> b, payload |-> <<>>] : b \in BlockKinds}]
                            : n \in 0..MaxBlocks},
        k \in FrameKinds,
        p \in SamplePayloads \ {<<>>}}

Streams == SingleStreams \cup PlainStreams \cup HeaderStreams

streamBytes(st) == Flatten([i \in 1..Len(st) |-> itemBytes(st[i])])

\* payloads of the frames of a stream, in order
RECURSIVE framePayloads(_)
framePayloads(st) ==
    IF st = <<>> THEN <<>>
    ELSE (IF IsFrame(Head(st)) THEN <<Head(st).payload>> ELSE <<>>)
         \o framePayloads(Tail(st))

(***************************************************************************)
(* Process supervisor: LspManager (electron/updater.ts) and the renderer   *)
(* store that calls it (src/stores/lspStore.ts)                            *)
(***************************************************************************)
\* serverKey(languageId, projectRoot) of the configured languages in use
Keys == {"typescript:/repo", "go:/repo"}

Calls == 1..MaxCalls

\* wss.address().port: the OS hands every listener its own port
PortOf(i) == 49152 + i

NoCall == [key |-> "", pc |-> "none", port |-> 0, reused |-> 0]
NoInfo == [status |-> "absent", port |-> 0]


\* sockets that may be connected to one listener
Clients == 1..MaxClients

\* `server.wss.clients.forEach(client => client.terminate())`
clientsAfterTerminate_keep(cl) == cl

clientsAfterTerminate(cl) == {}

\* wss.close() in the 'exit'/'error' handlers: whether the sockets already
\* connected are closed with the listener depends on the ws release in use
clientsAfterClose(cl) == {cl, {}}

\* `lsProcess.stdin?.writable`: the pipe takes writes until the subprocess
\* is gone
stdinWritable(st) == st \in {"running", "killed"}

\* messages the bridges have relayed so far
nTraffic ==
    LET RECURSIVE sum(_)
        sum(S) == IF S = {} THEN 0
                  ELSE LET c == CHOOSE x \in S : TRUE
                       IN nOut[c] + Len(accepted[c]) + sum(S \ {c})
    IN sum(Calls)

\* closeServer(server): terminate clients, kill the subprocess, close the
\* listener.  kill() only signals; the 'exit' event follows later.
procAfterKill(st) == IF st = "running" THEN "killed" ELSE st

\* `if (existing?.status === 'running' && existing.port) return existing.port`
\* of lspStore.startServer: the port the store answers with on its own
\* (0 = none, the supervisor is asked)
cachedPort(info) == IF info.status = "running" THEN info.port ELSE 0

\* the instance a port belongs to
instanceAt(port) == CHOOSE i \in Calls : PortOf(i) = port

\* lspStore.startServer up to the await, together with the synchronous part
\* of LspManager.start that the lsp:start handler runs: the registry lookup,
\* spawn and the creation of the listener.  A spawn that fails emits 'error'
\* on the next tick, before any listener for it exists.  A key the store
\* holds as running is answered from the store, without the supervisor; a
\* key it holds as starting is answered with null (no step).
startServerCall(k, spawnOk) ==
    /\ ~quitting
    /\ nCalls < MaxCalls
    /\ storeServers[k].status # "starting"
    /\ LET c == nCalls + 1 IN
       /\ nCalls' = c
       /\ IF cachedPort(storeServers[k]) # 0
          THEN /\ spawnOk
               /\ call' = [call EXCEPT ![c] =
                              [key |-> k, pc |-> "done",
                               port |-> cachedPort(storeServers[k]),
                               reused |-> instanceAt(cachedPort(storeServers[k]))]]
               /\ UNCHANGED <<storeServers, proc, wss, diedEarly>>
          ELSE /\ storeServers' = [storeServers EXCEPT
                                     ![k] = [status |-> "starting", port |-> 0]]
               /\ IF servers[k] # 0
                  THEN /\ spawnOk
                       /\ call' = [call EXCEPT ![c] =
                                      [key |-> k, pc |-> "replied",
                                       port |-> PortOf(servers[k]),
                                       reused |-> servers[k]]]
                       /\ UNCHANGED <<proc, wss, diedEarly>>
                  ELSE /\ call' = [call EXCEPT ![c] =
                                      [key |-> k, pc |-> "awaiting",
                                       port |-> 0, reused |-> 0]]
                       /\ proc' = [proc EXCEPT ![c] = IF spawnOk THEN "running"
                                                      ELSE "failed"]
                       /\ wss' = [wss EXCEPT ![c] = "binding"]
                       /\ diedEarly' = [diedEarly EXCEPT ![c] = ~spawnOk]
    /\ UNCHANGED <<servers, handlers, quitting, stopCalls>>
    /\ UNCHANGED <<conn, trafficVars>>
    /\ stopSeen' = [c \in Calls |-> stopSeen[c] /\ call[c].key # k]
    /\ UNCHANGED <<codecVars, clientVars, convVars, sharedVars, diagVars>>

\* startServer called from outside the editor panel's effect
startServer(k, spawnOk) == startServerCall(k, spawnOk) /\ UNCHANGED editorVars

\* the listener's 'listening' event: LspManager.start resumes after the
\* await, wires the bridge, attaches the 'exit' and 'error' listeners,
\* registers the instance and returns its port
listening(c) ==
    /\ call[c].pc = "awaiting"
    /\ wss[c] = "binding"
    /\ wss' = [wss EXCEPT ![c] = "listening"]
    /\ handlers' = [handlers EXCEPT ![c] = TRUE]
    /\ servers' = [servers EXCEPT ![call[c].key] = c]
    /\ call' = [call EXCEPT ![c].pc = "replied", ![c].port = PortOf(c)]
    /\ UNCHANGED <<nCalls, proc, diedEarly, quitting, storeServers, stopCalls>>
    /\ UNCHANGED <<conn, trafficVars>>
    /\ UNCHANGED stopSeen
    /\ UNCHANGED <<codecVars, clientVars, convVars, sharedVars, diagVars, editorVars>>

\* the subprocess exits (crash, clean exit, or after kill()).  With the
\* 'exit' listener attached its handler closes the listener and deletes the
\* key; without it the event is emitted to nobody.
procExit(c) ==
    /\ proc[c] \in {"running", "killed"}
    /\ proc' = [proc EXCEPT ![c] = "exited"]
    /\ IF handlers[c]
       THEN /\ wss' = [wss EXCEPT ![c] = "closed"]
            /\ servers' = [servers EXCEPT ![call[c].key] = 0]
            /\ \E left \in clientsAfterClose(conn[c]) :
                  conn' = [conn EXCEPT ![c] = left]
            /\ UNCHANGED diedEarly
       ELSE /\ diedEarly' = [diedEarly EXCEPT ![c] = TRUE]
            /\ UNCHANGED <<wss, servers, conn>>
    /\ UNCHANGED <<nCalls, call, handlers, quitting, storeServers, stopCalls>>
    /\ UNCHANGED trafficVars
    /\ UNCHANGED stopSeen
    /\ UNCHANGED <<codecVars, clientVars, convVars, sharedVars, diagVars, editorVars>>

\* lspStore.startServer after the await: the port arrives in the renderer
startServerReturn(c) ==
    /\ call[c].pc = "replied"
    /\ call' = [call EXCEPT ![c].pc = "done"]
    /\ storeServers' = [storeServers EXCEPT
                          ![call[c].key] = [status |-> "running", port |-> call[c].port]]
    /\ UNCHANGED <<servers, nCalls, proc, wss, handlers, diedEarly, quitting, stopCalls>>
    /\ UNCHANGED <<conn, trafficVars>>
    /\ UNCHANGED stopSeen
    /\ UNCHANGED <<codecVars, clientVars, convVars, sharedVars, diagVars, editorVars>>

\* call c is a start of key k suspended at `await new Promise(... 'listening')`
awaitingListener(c, k) == call[c].key = k /\ call[c].pc = "awaiting"

\* LspManager.stop(languageId, projectRoot)
stop(k) ==
    IF servers[k] = 0
    THEN UNCHANGED <<servers, proc, wss, conn>>
    ELSE LET i == servers[k] IN
         /\ conn' = [conn EXCEPT ![i] = clientsAfterTerminate(@)]
         /\ proc' = [proc EXCEPT ![i] = procAfterKill(proc[i])]
         /\ wss' = [wss EXCEPT ![i] = "closed"]
         /\ servers' = [servers EXCEPT ![k] = 0]

\* lspStore.stopServer up to the await, with the lsp:stop handler
stopServer(k) ==
    /\ ~quitting
    /\ stopCalls[k] < MaxStopCalls
    /\ stop(k)
    /\ stopCalls' = [stopCalls EXCEPT ![k] = @ + 1]
    /\ UNCHANGED <<nCalls, call, handlers, diedEarly, quitting, storeServers>>
    /\ UNCHANGED trafficVars
    /\ stopSeen' = [c \in Calls |-> stopSeen[c] \/ awaitingListener(c, k)]
    /\ UNCHANGED <<codecVars, clientVars, convVars, sharedVars, diagVars, editorVars>>

\* lspStore.stopServer after the await: the key leaves the store
stopServerReturn(k) ==
    /\ stopCalls[k] > 0
    /\ stopCalls' = [stopCalls EXCEPT ![k] = @ - 1]
    /\ storeServers' = [storeServers EXCEPT ![k] = NoInfo]
    /\ UNCHANGED <<servers, nCalls, call, proc, wss, handlers, diedEarly, quitting>>
    /\ UNCHANGED <<conn, trafficVars>>
    /\ UNCHANGED stopSeen
    /\ UNCHANGED <<codecVars, clientVars, convVars, sharedVars, diagVars, editorVars>>

\* LspManager.stopAll(), run by app.on('will-quit')
stopAll ==
    /\ ~quitting
    /\ quitting' = TRUE
    /\ proc' = [c \in Calls |->
                  IF \E k \in Keys : servers[k] = c THEN procAfterKill(proc[c])
                  ELSE proc[c]]
    /\ wss' = [c \in Calls |->
                  IF \E k \in Keys : servers[k] = c THEN "closed" ELSE wss[c]]
    /\ conn' = [c \in Calls |->
                  IF \E k \in Keys : servers[k] = c
                  THEN clientsAfterTerminate(conn[c]) ELSE conn[c]]
    /\ servers' = [k \in Keys |-> 0]
    /\ UNCHANGED <<nCalls, call, handlers, diedEarly, storeServers, stopCalls>>
    /\ UNCHANGED trafficVars
    /\ stopSeen' = [c \in Calls |->
                      stopSeen[c] \/ \E k \in Keys : awaitingListener(c, k)]
    /\ UNCHANGED <<codecVars, clientVars, convVars, sharedVars, diagVars, editorVars>>

\* wss 'connection': a client socket connects to the listener of instance c
connection(c, w) ==
    /\ wss[c] = "listening"
    /\ w \notin conn[c]
    /\ conn' = [conn EXCEPT ![c] = @ \cup {w}]
    /\ UNCHANGED <<servers, nCalls, call, proc, wss, handlers, diedEarly,
                   quitting, storeServers, stopCalls, trafficVars>>
    /\ UNCHANGED stopSeen
    /\ UNCHANGED <<codecVars, clientVars, convVars, sharedVars, diagVars, editorVars>>

\* a connected client closes its socket
clientClose(c, w) ==
    /\ w \in conn[c]
    /\ conn' = [conn EXCEPT ![c] = @ \ {w}]
    /\ UNCHANGED <<servers, nCalls, call, proc, wss, handlers, diedEarly,
                   quitting, storeServers, stopCalls, trafficVars>>
    /\ UNCHANGED stopSeen
    /\ UNCHANGED <<codecVars, clientVars, convVars, sharedVars, diagVars, editorVars>>

\* the callback of `new LspMessageParser(...)`: client.send(json) for every
\* client of wss.clients whose readyState is OPEN
broadcast_firstOnly(rcv, cl, json) ==
    [w \in Clients |->
        IF cl # {} /\ w = CHOOSE x \in cl : TRUE
        THEN Append(rcv[w], json) ELSE rcv[w]]

broadcast(rcv, cl, json) ==
    [w \in Clients |-> IF w \in cl THEN Append(rcv[w], json) ELSE rcv[w]]

\* lsProcess.stdout 'data' completes a message: the parser decodes the
\* (nOut + 1)-th message of instance c and hands it to the callback
stdoutMessage(c) ==
    /\ handlers[c]
    /\ proc[c] \in {"running", "killed"}
    /\ nTraffic < MaxTraffic
    /\ nOut' = [nOut EXCEPT ![c] = @ + 1]
    /\ received' = [received EXCEPT ![c] = broadcast(@, conn[c], nOut[c] + 1)]
    /\ UNCHANGED <<servers, nCalls, call, proc, wss, handlers, diedEarly,
                   quitting, storeServers, stopCalls, conn, stdin, accepted>>
    /\ UNCHANGED stopSeen
    /\ UNCHANGED <<codecVars, clientVars, convVars, sharedVars, diagVars, editorVars>>

\* messages a client may send: 'a' and U+00E9 'a'
ClientPayloads == {<<97>>, <<233, 97>>}

\* `if (lsProcess.stdin?.writable) lsProcess.stdin.write(encodeMessage(json))`
stdinAfterMessage_unframed(writable, bytes, json) ==
    IF writable THEN bytes \o utf8Encode(json) ELSE bytes

stdinAfterMessage(writable, bytes, json) ==
    IF writable THEN bytes \o encodeMessage(json) ELSE bytes

\* ws 'message' of client w of instance c
wsMessage(c, w, json) ==
    /\ w \in conn[c]
    /\ nTraffic < MaxTraffic
    /\ stdin' = [stdin EXCEPT
                   ![c] = stdinAfterMessage(stdinWritable(proc[c]), @, json)]
    /\ accepted' = [accepted EXCEPT
                      ![c] = IF stdinWritable(proc[c])
                             THEN Append(@, [client |-> w, json |-> json])
                             ELSE @]
    /\ stdinWritable(proc[c])
    /\ UNCHANGED <<servers, nCalls, call, proc, wss, handlers, diedEarly,
                   quitting, storeServers, stopCalls, conn, received, nOut>>
    /\ UNCHANGED stopSeen
    /\ UNCHANGED <<codecVars, clientVars, convVars, sharedVars, diagVars, editorVars>>

SupNext ==
    \/ \E k \in Keys, ok \in BOOLEAN : startServer(k, ok)
    \/ \E c \in Calls : listening(c)
    \/ \E c \in Calls : procExit(c)
    \/ \E c \in Calls : startServerReturn(c)
    \/ \E k \in Keys : stopServer(k)
    \/ \E k \in Keys : stopServerReturn(k)
    \/ stopAll
    \/ \E c \in Calls, w \in Clients : connection(c, w)
    \/ \E c \in Calls, w \in Clients : clientClose(c, w)

\* one key's instance from spawn to stop or exit, with the traffic of its
\* bridge (the closures of one LspManager.start call: lsProcess, wss, parser)
BridgeKey == "typescript:/repo"

BridgeNext ==
    \/ \E ok \in BOOLEAN : startServer(BridgeKey, ok)
    \/ \E c \in Calls : listening(c)
    \/ \E c \in Calls : procExit(c)
    \/ stopServer(BridgeKey)
    \/ \E c \in Calls, w \in Clients : connection(c, w)
    \/ \E c \in Calls, w \in Clients : clientClose(c, w)
    \/ \E c \in Calls : stdoutMessage(c)
    \/ \E c \in Calls, w \in Clients, json \in ClientPayloads : wsMessage(c, w, json)

(***************************************************************************)
(* Client session: useLspClient (src/hooks/useLspClient.ts)                *)
(***************************************************************************)
Sessions == 1..MaxSessions
Ids == 1..MaxRequestId

\* paths of the Monaco models of the session's language
Paths == {"/repo/main.go", "/repo/util.go"}

\* the file the editor shows when the hook first runs (the paths are
\* interchangeable, so the first one is named)
FirstPath == "/repo/main.go"

\* features gated by a server capability, in the order registerProviders
\* tests them
Features == <<"completion", "hover">>

FeatureSet == {Features[i] : i \in 1..Len(Features)}

\* the value of serverCapabilitiesRef.current before a handshake: null
NullCaps == {"null"}

NoReq == [method |-> "none", sess |-> 0]

\* a JSON-RPC request as it is written to the socket
request(method, id) ==
    [method |-> method, id |-> id, path |-> "", version |-> 0, text |-> 0]

\* a JSON-RPC notification about a text document (or about none)
notification(method, path, version, txt) ==
    [method |-> method, id |-> 0, path |-> path, version |-> version,
     text |-> txt]

DocMethods == {"didOpen", "didChange", "didSave", "didClose"}

\* events the editor and the server have put in so far: content changes,
\* saves, provider calls, unmatched responses, server requests and re-runs
\* of the effect
nEvents ==
    text + nSaves + nStray + nServerRequests + nNotReady + nPublish
    + Cardinality({i \in Ids : req[i].method = "feature"})
    + (IF nSess > 1 THEN nSess - 1 ELSE 0)

\* ws.send(data): delivered only on an open socket
wsSend(log, s, msg) ==
    IF ws[s] = "OPEN" THEN [log EXCEPT ![s] = Append(@, msg)] ELSE log

\* ws.close(): starts the closing handshake unless already closing/closed
wsClose(st) == IF st \in {"CONNECTING", "OPEN"} THEN "CLOSING" ELSE st

\* `++requestIdRef.current`
nextRequestId(id) == id + 1

\* requestIdRef is a ref of the hook instance: an effect run starts with the
\* value the previous run left
requestIdAtMount_reset(id) == 0

requestIdAtMount(id) == id

\* openDocsRef.current.has(path)
has(open, p) == \E i \in 1..Len(open) : open[i] = p

\* model.getValue() of the model at path p: the editor shows the model of
\* the mounted run's filePath; other models are not edited
getValue_initial(p) == 0

getValue(p) == IF cur # 0 /\ p = filePath[cur] THEN text ELSE 0

\* the early return of openDocument
openDocumentReturns_ignoreOpen(init, open, p) == ~init

openDocumentReturns(init, open, p) == ~init \/ has(open, p)

\* `versionRef.current.set(path, 1)` and the version of didOpen
FirstVersion == 1

\* openDocument(path) called by effect run s, on the document state
\* d = [open, ver, log]; init is initializedRef.current at the call
openDocument(d, s, p, init) ==
    IF openDocumentReturns(init, d.open, p)
    THEN d
    ELSE [open |-> Append(d.open, p),
          ver |-> [d.ver EXCEPT ![p] = FirstVersion],
          log |-> wsSend(d.log, s,
                         notification("didOpen", p, FirstVersion, getValue(p)))]

\* the loop `for (const doc of openDocs) closeDocument(doc)` of the cleanup of
\* effect run s: one didClose per open document, in insertion order
closeAll(log, s, open) ==
    IF ws[s] = "OPEN"
    THEN [log EXCEPT ![s] = @ \o [i \in 1..Len(open) |->
                                     notification("didClose", open[i], 0, 0)]]
    ELSE log

\* debounced(...args) of effect run s: clearTimeout(timer), then setTimeout
debounced_keepTimer(tms, s, p, txt) ==
    tms \cup {[sess |-> s, path |-> p, text |-> txt]}

debounced(tms, s, p, txt) ==
    {t \in tms : t.sess # s} \cup {[sess |-> s, path |-> p, text |-> txt]}

\* debounced.cancel() of effect run s
cancel_keepTimer(tms, s) == tms

cancel(tms, s) == {t \in tms : t.sess # s}

\* `(versionRef.current.get(path) ?? 0) + 1`
nextVersion_same(v) == v

nextVersion(v) == v + 1

\* registerProviders() of effect run s with capabilities c: one registration
\* per advertised feature, pushed to disposablesRef.current
registerProviders_ungated(list, s, c) ==
    list \o [i \in 1..Len(Features) |-> [sess |-> s, feature |-> Features[i]]]

registerProviders(list, s, c) ==
    IF c = NullCaps THEN list
    ELSE LET fs == SelectSeq(Features, LAMBDA f : f \in c) IN
         list \o [i \in 1..Len(fs) |-> [sess |-> s, feature |-> fs[i]]]

\* the effect body: new WebSocket(...), initializedRef.current = false
mount(p) ==
    /\ cur = 0
    /\ nSess < MaxSessions
    /\ nSess > 0 => nEvents < MaxEvents
    /\ nSess = 0 => p = FirstPath
    /\ nSess' = nSess + 1
    /\ cur' = nSess + 1
    /\ filePath' = [filePath EXCEPT ![nSess + 1] = p]
    /\ ws' = [ws EXCEPT ![nSess + 1] = "CONNECTING"]
    /\ initialized' = FALSE
    /\ requestId' = requestIdAtMount(requestId)
    /\ UNCHANGED <<pendingRequests, req, promise, settles, providers,
                   sent, answered, fromServer, handledIds, nStray, caps,
                   openDocs, versions, text, timers, nSaves>>
    /\ UNCHANGED <<nServerRequests, applied, nNotReady>>
    /\ UNCHANGED <<codecVars, supVars, convVars, sharedVars, diagVars, editorVars>>

\* ws.onopen: sendRequest('initialize', ...) and suspend on its promise
wsOnOpen(s) ==
    /\ ws[s] = "CONNECTING"
    /\ requestId < MaxRequestId
    /\ LET id == nextRequestId(requestId) IN
       /\ requestId' = id
       /\ pendingRequests' = pendingRequests \cup {id}
       /\ req' = [req EXCEPT ![id] = [method |-> "initialize", sess |-> s]]
       /\ promise' = [promise EXCEPT ![id] = "pending"]
       /\ sent' = [sent EXCEPT ![s] = Append(@, request("initialize", id))]
    /\ ws' = [ws EXCEPT ![s] = "OPEN"]
    /\ UNCHANGED <<nSess, cur, settles, initialized, providers, answered,
                   fromServer, handledIds, nStray, filePath, caps, openDocs,
                   versions, text, timers, nSaves>>
    /\ UNCHANGED <<nServerRequests, applied, nNotReady>>
    /\ UNCHANGED <<codecVars, supVars, convVars, sharedVars, diagVars, editorVars>>

\* `if (!initializedRef.current) return <empty>` at the head of a provider:
\* the call goes on to send its request iff the session is Ready
providerSends_always(init) == TRUE

providerSends(init) == init

\* what the async provider function ends with, from the state of the promise
\* it awaits inside try/catch: a rejection is caught and gives the empty
\* result; nothing is returned while the promise is unsettled
provideResult(st) ==
    CASE st = "resolved" -> "value"
      [] st = "rejected" -> "empty"
      [] OTHER -> "awaiting"

\* the i-th registered provider is called by Monaco for the model at path p:
\* `if (!initializedRef.current) return ...`, openDocument(model.uri.path),
\* then sendRequest(<feature method>, ...)
providerRequest(i, p) ==
    /\ i \in 1..Len(providers)
    /\ nEvents < MaxEvents
    /\ IF providerSends(initialized)
       THEN /\ requestId < MaxRequestId
            /\ LET s == providers[i].sess
                   id == nextRequestId(requestId)
                   d == openDocument([open |-> openDocs, ver |-> versions,
                                      log |-> sent], s, p, initialized)
               IN
               /\ requestId' = id
               /\ pendingRequests' = pendingRequests \cup {id}
               /\ req' = [req EXCEPT ![id] = [method |-> "feature", sess |-> s]]
               /\ promise' = [promise EXCEPT ![id] = "pending"]
               /\ openDocs' = d.open
               /\ versions' = d.ver
               /\ sent' = IF ws[s] = "OPEN"
                          THEN [d.log EXCEPT ![s] =
                                   Append(@, [request("feature", id)
                                              EXCEPT !.path = p])]
                          ELSE d.log
            /\ UNCHANGED nNotReady
       ELSE /\ nNotReady' = nNotReady + 1
            /\ UNCHANGED <<requestId, pendingRequests, req, promise, openDocs,
                           versions, sent>>
    /\ UNCHANGED <<nSess, cur, ws, settles, initialized, providers, answered,
                   fromServer, handledIds, nStray, filePath, caps, text,
                   timers, nSaves>>
    /\ UNCHANGED <<nServerRequests, applied>>
    /\ UNCHANGED <<codecVars, supVars, convVars, sharedVars, diagVars, editorVars>>

\* editor.onDidChangeModelContent of the mounted run:
\* sendDidChange(filePath, model.getValue())
contentChange ==
    /\ cur # 0
    /\ nEvents < MaxEvents
    /\ text' = text + 1
    /\ timers' = debounced(timers, cur, filePath[cur], text + 1)
    /\ UNCHANGED <<nSess, cur, ws, requestId, pendingRequests, req, promise,
                   settles, initialized, providers, sent, answered, fromServer,
                   handledIds, nStray, filePath, caps, openDocs, versions,
                   nSaves>>
    /\ UNCHANGED <<nServerRequests, applied, nNotReady>>
    /\ UNCHANGED <<codecVars, supVars, convVars, sharedVars, diagVars, editorVars>>

\* a debounce timer expires: the function passed to debounce runs with the
\* arguments of the call that set the timer
flush(tm) ==
    /\ tm \in timers
    /\ timers' = timers \ {tm}
    /\ IF ~initialized \/ ~has(openDocs, tm.path)
       THEN UNCHANGED <<versions, sent>>
       ELSE LET version == nextVersion(versions[tm.path]) IN
            /\ versions' = [versions EXCEPT ![tm.path] = version]
            /\ sent' = wsSend(sent, tm.sess,
                              notification("didChange", tm.path, version, tm.text))
    /\ UNCHANGED <<nSess, cur, ws, requestId, pendingRequests, req, promise,
                   settles, initialized, providers, answered, fromServer,
                   handledIds, nStray, filePath, caps, openDocs, text, nSaves>>
    /\ UNCHANGED <<nServerRequests, applied, nNotReady>>
    /\ UNCHANGED <<codecVars, supVars, convVars, sharedVars, diagVars, editorVars>>

\* the early return of handleDidSave
handleDidSaveReturns_ignoreOpen(init, open, p) == ~init

handleDidSaveReturns(init, open, p) == ~init \/ ~has(open, p)

\* handleDidSave of the mounted run for an 'lsp:didSave' event about path p
handleDidSave(p) ==
    /\ cur # 0
    /\ nEvents < MaxEvents
    /\ IF handleDidSaveReturns(initialized, openDocs, p)
       THEN UNCHANGED <<sent, nSaves>>
       ELSE /\ sent' = wsSend(sent, cur,
                              notification("didSave", p, 0, getValue(p)))
            /\ nSaves' = nSaves + 1
    /\ UNCHANGED <<nSess, cur, ws, requestId, pendingRequests, req, promise,
                   settles, initialized, providers, answered, fromServer,
                   handledIds, nStray, filePath, caps, openDocs, versions,
                   text, timers>>
    /\ UNCHANGED <<nServerRequests, applied, nNotReady>>
    /\ UNCHANGED <<codecVars, supVars, convVars, sharedVars, diagVars, editorVars>>

\* ids of the requests the server has received on connection s
RequestsOn(s) ==
    {sent[s][i].id : i \in {k \in 1..Len(sent[s]) : sent[s][k].method # "reply"}}
    \ {0}

\* the capabilities a response may carry: an InitializeResult advertises any
\* set of features, every other result none
CapsOf(id, err) ==
    IF req[id].method = "initialize" /\ ~err THEN SUBSET FeatureSet ELSE {{}}

\* the language server answers one of the requests it holds, in any order
serverRespond(s, id, err, c) ==
    /\ ws[s] \in {"OPEN", "CLOSING"}
    /\ id \in RequestsOn(s) \ answered
    /\ c \in CapsOf(id, err)
    /\ Len(fromServer[s]) < MaxQueue
    /\ fromServer' = [fromServer EXCEPT
                        ![s] = Append(@, [id |-> id, err |-> err,
                                          stray |-> FALSE, caps |-> c, diags |-> 0,
                                          method |-> "", path |-> ""])]
    /\ answered' = answered \cup {id}
    /\ UNCHANGED <<nSess, cur, ws, requestId, pendingRequests, req, promise,
                   settles, initialized, providers, sent, handledIds,
                   nStray, filePath, caps, openDocs, versions, text, timers,
                   nSaves>>
    /\ UNCHANGED <<nServerRequests, applied, nNotReady>>
    /\ UNCHANGED <<codecVars, supVars, convVars, sharedVars, diagVars, editorVars>>

\* the server sends a response for an id it holds no open request for
serverStray(s, id, err) ==
    /\ ws[s] \in {"OPEN", "CLOSING"}
    /\ id \in Ids \ (RequestsOn(s) \ answered)
    /\ nStray < MaxStray
    /\ nEvents < MaxEvents
    /\ Len(fromServer[s]) < MaxQueue
    /\ fromServer' = [fromServer EXCEPT
                        ![s] = Append(@, [id |-> id, err |-> err,
                                          stray |-> TRUE, caps |-> {}, diags |-> 0,
                                          method |-> "", path |-> ""])]
    /\ nStray' = nStray + 1
    /\ UNCHANGED <<nSess, cur, ws, requestId, pendingRequests, req, promise,
                   settles, initialized, providers, sent, answered, handledIds,
                   filePath, caps, openDocs, versions, text, timers, nSaves>>
    /\ UNCHANGED <<nServerRequests, applied, nNotReady>>
    /\ UNCHANGED <<codecVars, supVars, convVars, sharedVars, diagVars, editorVars>>

\* the paths a workspace edit may name: those of the Monaco models and one
\* for which the editor holds no model
NoModelPath == "/repo/gone.go"

EditTargets == Paths \cup {NoModelPath}

\* the server sends a workspace/applyEdit request with an id of its own
\* choosing (server and client number their requests independently)
serverRequest(s, id, p) ==
    /\ ws[s] \in {"OPEN", "CLOSING"}
    /\ nEvents < MaxEvents
    /\ Len(fromServer[s]) < MaxQueue
    /\ fromServer' = [fromServer EXCEPT
                        ![s] = Append(@, [id |-> id, err |-> FALSE,
                                          stray |-> TRUE, caps |-> {}, diags |-> 0,
                                          method |-> "workspace/applyEdit",
                                          path |-> p])]
    /\ nServerRequests' = nServerRequests + 1
    /\ UNCHANGED <<nSess, cur, ws, requestId, pendingRequests, req, promise,
                   settles, initialized, providers, sent, answered, handledIds,
                   nStray, filePath, caps, openDocs, versions, text, timers,
                   nSaves, applied, nNotReady>>
    /\ UNCHANGED <<codecVars, supVars, convVars, sharedVars, diagVars, editorVars>>

\* the server sends a textDocument/publishDiagnostics notification for the
\* document at path p carrying n diagnostics
serverPublish(s, p, n) ==
    /\ ws[s] \in {"OPEN", "CLOSING"}
    /\ sent[s] # <<>>          \* the connection was established
    /\ nEvents < MaxEvents
    /\ Len(fromServer[s]) < MaxQueue
    /\ fromServer' = [fromServer EXCEPT
                        ![s] = Append(@, [id |-> 0, err |-> FALSE,
                                          stray |-> TRUE, caps |-> {}, diags |-> n,
                                          method |-> "textDocument/publishDiagnostics",
                                          path |-> p])]
    /\ nPublish' = nPublish + 1
    /\ UNCHANGED <<nSess, cur, ws, requestId, pendingRequests, req, promise,
                   settles, initialized, providers, sent, answered, handledIds,
                   nStray, filePath, caps, openDocs, versions, text, timers,
                   nSaves, nServerRequests, applied, nNotReady, markers>>
    /\ UNCHANGED <<codecVars, supVars, convVars, sharedVars, editorVars>>

\* `pendingRequestsRef.current.delete(msg.id)`
tableAfterResponse_keep(table, id) == table

tableAfterResponse(table, id) == table \ {id}

\* the part of ws.onopen that follows `await sendRequest('initialize', ...)`
\* in effect run t: sendNotification('initialized'), then
\* `initializedRef.current = true`, then openDocument(filePath)
afterInitialize_openFirst(d, t) ==
    LET d1 == openDocument(d, t, filePath[t], TRUE) IN
    [d1 EXCEPT !.log = wsSend(d1.log, t, notification("initialized", "", 0, 0))]

afterInitialize(d, t) ==
    openDocument([d EXCEPT !.log = wsSend(d.log, t,
                                          notification("initialized", "", 0, 0))],
                 t, filePath[t], TRUE)

\* `await sendRequest('initialize', ...)` returns (instead of throwing into
\* the catch of ws.onopen) iff the response carries no error
initializeReturned_ignoreError(m, err) == m = "initialize"

initializeReturned(m, err) == m = "initialize" /\ ~err

\* the reply to a server request: `{ jsonrpc, id: msg.id, result }`
reply(id) ==
    [method |-> "reply", id |-> id, path |-> "", version |-> 0, text |-> 0]

\* `m.editor.setModelMarkers(model, 'lsp', markers)` for the model whose
\* uri.path is p, if there is one; markers = params.diagnostics.map(...)
setModelMarkers(mk, p, n) == IF p \in Paths THEN [mk EXCEPT ![p] = n] ELSE mk

\* `for (const model of m.editor.getModels()) setModelMarkers(model, 'lsp', [])`
clearMarkers(mk) == [p \in Paths |-> 0]

\* the test that sends a message into the response branch of ws.onmessage
isResponse(table, msg) == msg.id \in table

\* ws.onmessage, followed by the continuation of the promise a response
\* settles: the rest of ws.onopen for 'initialize', the then/catch/finally
\* chain of the cleanup for 'shutdown'; a message that is no response and
\* has method workspace/applyEdit is applied to the model of its path and
\* answered
wsOnMessage(s) ==
    /\ ws[s] \in {"OPEN", "CLOSING"}
    /\ fromServer[s] # <<>>
    /\ LET msg == Head(fromServer[s])
           hit == isResponse(pendingRequests, msg)
           \* a request taken for a response resolves the promise with
           \* undefined, and `initResult.capabilities` throws into the catch
           noResult == msg.method # ""
           m == req[msg.id].method
           t == req[msg.id].sess
           d == afterInitialize([open |-> openDocs, ver |-> versions,
                                 log |-> sent], t)
       IN
       /\ fromServer' = [fromServer EXCEPT ![s] = Tail(@)]
       /\ handledIds' = [handledIds EXCEPT
                            ![s] = IF msg.stray THEN @ ELSE @ \cup {msg.id}]
       /\ IF hit
          THEN /\ pendingRequests' = tableAfterResponse(pendingRequests, msg.id)
               /\ promise' = [promise EXCEPT ![msg.id] =
                                 IF @ = "pending"
                                 THEN (IF msg.err THEN "rejected" ELSE "resolved")
                                 ELSE @]
               /\ settles' = [settles EXCEPT ![msg.id] = @ + 1]
               /\ IF /\ initializeReturned(m, msg.err \/ noResult)
                     /\ promise[msg.id] = "pending"
                  THEN /\ caps' = msg.caps
                       /\ initialized' = TRUE
                       /\ sent' = d.log
                       /\ openDocs' = d.open
                       /\ versions' = d.ver
                       /\ providers' = registerProviders(providers, t, msg.caps)
                       /\ UNCHANGED ws
                  ELSE IF m = "shutdown" /\ promise[msg.id] = "pending"
                  THEN /\ sent' = IF msg.err THEN sent
                                  ELSE wsSend(sent, t, notification("exit", "", 0, 0))
                       /\ ws' = [ws EXCEPT ![t] = wsClose(@)]
                       /\ UNCHANGED <<initialized, providers, caps, openDocs,
                                      versions>>
                  ELSE UNCHANGED <<sent, ws, initialized, providers, caps,
                                   openDocs, versions>>
               /\ UNCHANGED <<text, timers, applied, markers>>
          ELSE IF msg.method = "textDocument/publishDiagnostics"
          THEN /\ markers' = setModelMarkers(markers, msg.path, msg.diags)
               /\ UNCHANGED <<pendingRequests, promise, settles, sent, ws,
                              initialized, providers, caps, openDocs, versions,
                              text, timers, applied>>
          ELSE IF msg.method = "workspace/applyEdit"
          THEN /\ applied' = IF msg.path \in Paths
                             THEN applied \cup {[sock |-> s, id |-> msg.id,
                                                 path |-> msg.path]}
                             ELSE applied
               /\ IF cur # 0 /\ msg.path = filePath[cur]
                  THEN /\ text' = text + 1
                       /\ timers' = debounced(timers, cur, msg.path, text + 1)
                  ELSE UNCHANGED <<text, timers>>
               /\ sent' = wsSend(sent, s, reply(msg.id))
               /\ UNCHANGED <<pendingRequests, promise, settles, ws,
                              initialized, providers, caps, openDocs, versions,
                              markers>>
          ELSE UNCHANGED <<pendingRequests, promise, settles, sent, ws,
                           initialized, providers, caps, openDocs, versions,
                           text, timers, applied, markers>>
    /\ UNCHANGED <<nSess, cur, requestId, req, answered, nStray, filePath,
                   nSaves, nServerRequests, nNotReady>>
    /\ UNCHANGED nPublish
    /\ UNCHANGED <<codecVars, supVars, convVars, sharedVars, editorVars>>

\* `initializedRef.current = false` of ws.onclose
readyAfterClose_keep(init) == init

readyAfterClose(init) == FALSE

\* the connection closes (drop, refused connect, or end of the closing
\* handshake): ws.onclose rejects every entry of the table and clears it;
\* a rejected 'shutdown' runs `.finally(() => ws.close())` on its socket
wsOnClose(s) ==
    /\ ws[s] \in {"CONNECTING", "OPEN", "CLOSING"}
    /\ initialized' = readyAfterClose(initialized)
    /\ promise' = [i \in Ids |->
                     IF i \in pendingRequests /\ promise[i] = "pending"
                     THEN "rejected" ELSE promise[i]]
    /\ settles' = [i \in Ids |->
                     IF i \in pendingRequests THEN settles[i] + 1 ELSE settles[i]]
    /\ pendingRequests' = {}
    /\ ws' = [t \in Sessions |->
                IF t = s THEN "CLOSED"
                ELSE IF \E i \in pendingRequests :
                          req[i].method = "shutdown" /\ req[i].sess = t
                     THEN wsClose(ws[t])
                     ELSE ws[t]]
    /\ fromServer' = [fromServer EXCEPT ![s] = <<>>]
    /\ UNCHANGED <<nSess, cur, requestId, req, providers, sent, answered,
                   handledIds, nStray, filePath, caps, openDocs, versions,
                   text, timers, nSaves>>
    /\ UNCHANGED <<nServerRequests, applied, nNotReady>>
    /\ UNCHANGED <<codecVars, supVars, convVars, sharedVars, diagVars, editorVars>>

\* `pendingRequests.clear()` at the end of the cleanup
tableAfterCleanup_keep(table) == table

tableAfterCleanup(table) == {}

\* the effect cleanup: sendDidChange.cancel(), dispose the listeners and the
\* providers, close every open document, clear both document tables, then
\* either sendRequest('shutdown') or ws.close(), then reset the refs and
\* pendingRequests.clear()
cleanup ==
    /\ cur # 0
    /\ LET s == cur
           closed == closeAll(sent, s, openDocs)
       IN
       /\ timers' = cancel(timers, s)
       /\ IF ws[s] = "OPEN"
          THEN /\ requestId < MaxRequestId
               /\ LET id == nextRequestId(requestId) IN
                  /\ requestId' = id
                  /\ req' = [req EXCEPT ![id] = [method |-> "shutdown", sess |-> s]]
                  /\ promise' = [promise EXCEPT ![id] = "pending"]
                  /\ sent' = [closed EXCEPT ![s] = Append(@, request("shutdown", id))]
               /\ UNCHANGED ws
          ELSE /\ ws' = [ws EXCEPT ![s] = wsClose(@)]
               /\ sent' = closed
               /\ UNCHANGED <<requestId, req, promise>>
    /\ providers' = <<>>
    /\ openDocs' = <<>>
    /\ versions' = [p \in Paths |-> 0]
    /\ caps' = NullCaps
    /\ initialized' = FALSE
    /\ pendingRequests' =
          tableAfterCleanup(IF ws[cur] = "OPEN"
                            THEN pendingRequests \cup {nextRequestId(requestId)}
                            ELSE pendingRequests)
    /\ cur' = 0
    /\ UNCHANGED <<nSess, settles, answered, fromServer, handledIds, nStray,
                   filePath, text, nSaves>>
    /\ UNCHANGED <<nServerRequests, applied, nNotReady>>
    /\ markers' = clearMarkers(markers)
    /\ UNCHANGED nPublish
    /\ UNCHANGED <<codecVars, supVars, convVars, sharedVars, editorVars>>

ClientNext ==
    \/ \E p \in Paths : mount(p)
    \/ \E s \in Sessions : wsOnOpen(s)
    \/ \E i \in 1..Len(Features), p \in Paths : providerRequest(i, p)
    \/ contentChange
    \/ \E tm \in timers : flush(tm)
    \/ \E p \in Paths : handleDidSave(p)
    \/ \E s \in Sessions, id \in Ids, err \in BOOLEAN, c \in SUBSET FeatureSet :
          serverRespond(s, id, err, c)
    \/ \E s \in Sessions, id \in Ids, err \in BOOLEAN : serverStray(s, id, err)
    \/ \E s \in Sessions, id \in Ids, p \in EditTargets : serverRequest(s, id, p)
    \/ \E s \in Sessions, p \in EditTargets, n \in 0..MaxDiags : serverPublish(s, p, n)
    \/ \E s \in Sessions : wsOnMessage(s)
    \/ \E s \in Sessions : wsOnClose(s)
    \/ cleanup

(***************************************************************************)
(* Conversions: src/lib/lspConversions.ts and the inline translation of    *)
(* markers in provideCodeActions (src/hooks/useLspClient.ts)               *)
(***************************************************************************)
monacoPositionToLsp(pos) ==
    [line |-> pos.lineNumber - 1, character |-> pos.column - 1]

lspPositionToMonaco_noShift(pos) ==
    [lineNumber |-> pos.line, column |-> pos.character]

lspPositionToMonaco(pos) ==
    [lineNumber |-> pos.line + 1, column |-> pos.character + 1]

lspRangeToMonaco(range) ==
    [startLineNumber |-> range.start.line + 1,
     startColumn |-> range.start.character + 1,
     endLineNumber |-> range.end.line + 1,
     endColumn |-> range.end.character + 1]

monacoRangeToLsp(range) ==
    [start |-> [line |-> range.startLineNumber - 1,
                character |-> range.startColumn - 1],
     end |-> [line |-> range.endLineNumber - 1,
              character |-> range.endColumn - 1]]

\* SEVERITY_MAP: protocol severity -> MarkerSeverity
SEVERITY_MAP == (1 :> 8) @@ (2 :> 4) @@ (3 :> 2) @@ (4 :> 1)

\* `SEVERITY_MAP[diag.severity ?? 1] ?? 8`; severity 0 stands for an absent
\* severity
markerSeverity(sev) ==
    LET key == IF sev = 0 THEN 1 ELSE sev
    IN  IF key \in DOMAIN SEVERITY_MAP THEN SEVERITY_MAP[key] ELSE 8

lspDiagnosticToMarker_hintAsInfo(diag) ==
    [severity |-> IF diag.severity = 4 THEN 2 ELSE markerSeverity(diag.severity),
     startLineNumber |-> diag.range.start.line + 1,
     startColumn |-> diag.range.start.character + 1,
     endLineNumber |-> diag.range.end.line + 1,
     endColumn |-> diag.range.end.character + 1]

lspDiagnosticToMarker(diag) ==
    [severity |-> markerSeverity(diag.severity),
     startLineNumber |-> diag.range.start.line + 1,
     startColumn |-> diag.range.start.character + 1,
     endLineNumber |-> diag.range.end.line + 1,
     endColumn |-> diag.range.end.character + 1]

\* the element of `context.markers.map(...)` in provideCodeActions
contextDiagnostic(marker) ==
    [range |-> [start |-> [line |-> marker.startLineNumber - 1,
                           character |-> marker.startColumn - 1],
                end |-> [line |-> marker.endLineNumber - 1,
                         character |-> marker.endColumn - 1]],
     severity |-> IF marker.severity = 8 THEN 1
                  ELSE IF marker.severity = 4 THEN 2
                  ELSE IF marker.severity = 2 THEN 3
                  ELSE 4]

(***************************************************************************)
(* Conversion inputs                                                       *)
(***************************************************************************)
NoConv == [kind |-> "none"]
NoValue == [none |-> TRUE]

\* editor coordinates are 1-based, protocol coordinates 0-based
MonacoPositions == [lineNumber : 1..MaxCoord, column : 1..MaxCoord]

MonacoRanges ==
    [startLineNumber : 1..MaxCoord, startColumn : 1..MaxCoord,
     endLineNumber : 1..MaxCoord, endColumn : 1..MaxCoord]

LspPositions == [line : 0..(MaxCoord - 1), character : 0..(MaxCoord - 1)]

LspRanges == [start : LspPositions, end : LspPositions]

\* protocol severities 1..4, 0 for a diagnostic without severity, 5 for a
\* value outside the protocol
Severities == 0..5

Diagnostics == [range : LspRanges, severity : Severities]

ConvInputs ==
    {[kind |-> "position", v |-> x] : x \in MonacoPositions}
    \cup {[kind |-> "range", v |-> x] : x \in MonacoRanges}
    \cup {[kind |-> "diagnostic", v |-> x] : x \in Diagnostics}

\* the first conversion of each trip: editor -> protocol for positions and
\* ranges (request parameters), protocol -> marker for diagnostics
convert ==
    /\ convIn # NoConv
    /\ convMid = NoValue
    /\ convMid' = CASE convIn.kind = "position" -> monacoPositionToLsp(convIn.v)
                    [] convIn.kind = "range" -> monacoRangeToLsp(convIn.v)
                    [] convIn.kind = "diagnostic" -> lspDiagnosticToMarker(convIn.v)
    /\ UNCHANGED <<convIn, convOut>>
    /\ UNCHANGED <<codecVars, supVars, clientVars, sharedVars, diagVars, editorVars>>

\* the conversion back: protocol -> editor for positions and ranges (results),
\* marker -> protocol diagnostic for the code-action context
convertBack ==
    /\ convMid # NoValue
    /\ convOut = NoValue
    /\ convOut' = CASE convIn.kind = "position" -> lspPositionToMonaco(convMid)
                    [] convIn.kind = "range" -> lspRangeToMonaco(convMid)
                    [] convIn.kind = "diagnostic" -> contextDiagnostic(convMid)
    /\ UNCHANGED <<convIn, convMid>>
    /\ UNCHANGED <<codecVars, supVars, clientVars, sharedVars, diagVars, editorVars>>

ConvNext == convert \/ convertBack

(***************************************************************************)
(* Two hook instances on one transport bridge                              *)
(***************************************************************************)
\* the hook instances whose sockets are clients of one LspManager listener
Hooks == Clients

\* a promise sendRequest has not created yet
NoPromise == [state |-> "none", by |-> 0]

\* sendRequest in hook instance h: the id comes from the instance's own
\* requestIdRef, the bridge writes the message to the subprocess's stdin
hookSendRequest(h) ==
    /\ hookRequestId[h] < MaxHookRequests
    /\ LET id == nextRequestId(hookRequestId[h]) IN
        /\ hookRequestId' = [hookRequestId EXCEPT ![h] = id]
        /\ hookPending' = [hookPending EXCEPT ![h] = @ \cup {id}]
        /\ hookPromise' = [hookPromise EXCEPT
                             ![h][id] = [state |-> "pending", by |-> 0]]
        /\ serverInbox' = Append(serverInbox, [of |-> h, id |-> id])
    /\ UNCHANGED hookInbound
    /\ UNCHANGED <<codecVars, supVars, clientVars, convVars, diagVars, editorVars>>

\* the language server answers the i-th request it holds; the stdout parser
\* hands the response to the callback, which sends it to every client
serverAnswer(i, err) ==
    /\ i \in 1..Len(serverInbox)
    /\ LET r == serverInbox[i]
           msg == [id |-> r.id, err |-> err, of |-> r.of] IN
        /\ hookInbound' = broadcast(hookInbound, Hooks, msg)
        /\ serverInbox' = [k \in 1..(Len(serverInbox) - 1) |->
                             IF k < i THEN serverInbox[k] ELSE serverInbox[k + 1]]
    /\ UNCHANGED <<hookRequestId, hookPending, hookPromise>>
    /\ UNCHANGED <<codecVars, supVars, clientVars, convVars, diagVars, editorVars>>

\* ws.onmessage of hook instance h for the oldest message on its socket
hookOnMessage(h) ==
    /\ hookInbound[h] # <<>>
    /\ LET msg == Head(hookInbound[h]) IN
        /\ hookInbound' = [hookInbound EXCEPT ![h] = Tail(@)]
        /\ IF isResponse(hookPending[h], msg)
           THEN /\ hookPending' = [hookPending EXCEPT
                                     ![h] = tableAfterResponse(@, msg.id)]
                /\ hookPromise' = [hookPromise EXCEPT
                                     ![h][msg.id] =
                                        [state |-> IF msg.err THEN "rejected"
                                                   ELSE "resolved",
                                         by |-> msg.of]]
           ELSE UNCHANGED <<hookPending, hookPromise>>
    /\ UNCHANGED <<hookRequestId, serverInbox>>
    /\ UNCHANGED <<codecVars, supVars, clientVars, convVars, diagVars, editorVars>>

SharedNext ==
    \/ \E h \in Hooks : hookSendRequest(h)
    \/ \E i \in 1..(MaxClients * MaxHookRequests), err \in BOOLEAN : serverAnswer(i, err)
    \/ \E h \in Hooks : hookOnMessage(h)

(***************************************************************************)
(* Editor panel: the auto-start effect of EditorPanel.tsx                  *)
(***************************************************************************)
\* a shown file whose language has no language server, or no file
NoLsp == "plaintext"

Selections == Keys \cup {NoLsp}

\* useLspStore.getServerPort: `get().servers.get(key)?.port ?? null`
getServerPort(k) == storeServers[k].port

\* `if (!cancelled) setLspPort(port)`
lspPortAfterThen(cancelled, old, port) == IF cancelled THEN old ELSE port

\* the shown file changes to one of key k (or to none): the cleanup of the
\* previous effect run sets its `cancelled`, then the effect body runs:
\* setLspPort(null) without a language server, setLspPort(existingPort) when
\* the store holds a port, otherwise startServer(...).then(...), where
\* lspStore.startServer returns null for a key that is 'starting'
editorSelect(k, spawnOk) ==
    /\ k \in Selections \ {shown}
    /\ nSelects < MaxSelects
    /\ nSelects' = nSelects + 1
    /\ shown' = k
    /\ LET old == {[t EXCEPT !.cancelled = TRUE] : t \in thens}
           run == nSelects + 1
       IN
       IF k = NoLsp \/ (k # NoLsp /\ getServerPort(k) # 0)
       THEN /\ spawnOk
            /\ lspPort' = IF k = NoLsp THEN 0 ELSE getServerPort(k)
            /\ thens' = old
            /\ UNCHANGED <<codecVars, supVars, clientVars, convVars,
                           sharedVars, diagVars>>
       ELSE IF storeServers[k].status = "starting"
       THEN /\ spawnOk
            /\ thens' = old \cup {[run |-> run, key |-> k, call |-> 0,
                                   cancelled |-> FALSE]}
            /\ UNCHANGED lspPort
            /\ UNCHANGED <<codecVars, supVars, clientVars, convVars,
                           sharedVars, diagVars>>
       ELSE /\ startServerCall(k, spawnOk)
            /\ thens' = old \cup {[run |-> run, key |-> k, call |-> nCalls + 1,
                                   cancelled |-> FALSE]}
            /\ UNCHANGED lspPort

\* the promise of startServer is settled and the `.then` callback of effect
\* run t.run is called with the port (null from a call that found the key
\* 'starting')
editorThen(t) ==
    /\ t \in thens
    /\ t.call # 0 => call[t.call].pc = "done"
    /\ thens' = thens \ {t}
    /\ lspPort' = lspPortAfterThen(t.cancelled, lspPort,
                                   IF t.call = 0 THEN 0 ELSE call[t.call].port)
    /\ UNCHANGED <<shown, nSelects>>
    /\ UNCHANGED <<codecVars, supVars, clientVars, convVars, sharedVars, diagVars>>

EditorNext ==
    \/ \E k \in Selections, ok \in BOOLEAN : editorSelect(k, ok)
    \/ \E t \in thens : editorThen(t)
    \/ \E c \in Calls : listening(c)
    \/ \E c \in Calls : procExit(c)
    \/ \E c \in Calls : startServerReturn(c)

(***************************************************************************)
(* Codec state machine                                                     *)
(***************************************************************************)

CodecInit ==
    /\ stream \in Streams
    /\ wire = streamBytes(stream)
    /\ buffer = <<>>
    /\ emitted = <<>>
    /\ loopExceeded = FALSE
    /\ servers = [k \in Keys |-> 0]
    /\ nCalls = 0
    /\ call = [c \in Calls |-> NoCall]
    /\ proc = [c \in Calls |-> "none"]
    /\ wss = [c \in Calls |-> "none"]
    /\ handlers = [c \in Calls |-> FALSE]
    /\ diedEarly = [c \in Calls |-> FALSE]
    /\ quitting = FALSE
    /\ storeServers = [k \in Keys |-> NoInfo]
    /\ stopCalls = [k \in Keys |-> 0]
    /\ conn = [c \in Calls |-> {}]
    /\ received = [c \in Calls |-> [w \in Clients |-> <<>>]]
    /\ nOut = [c \in Calls |-> 0]
    /\ stdin = [c \in Calls |-> <<>>]
    /\ accepted = [c \in Calls |-> <<>>]
    /\ stopSeen = [c \in Calls |-> FALSE]
    /\ nSess = 0
    /\ cur = 0
    /\ ws = [s \in Sessions |-> "none"]
    /\ requestId = 0
    /\ pendingRequests = {}
    /\ req = [i \in Ids |-> NoReq]
    /\ promise = [i \in Ids |-> "none"]
    /\ settles = [i \in Ids |-> 0]
    /\ initialized = FALSE
    /\ providers = <<>>
    /\ sent = [s \in Sessions |-> <<>>]
    /\ answered = {}
    /\ fromServer = [s \in Sessions |-> <<>>]
    /\ handledIds = [s \in Sessions |-> {}]
    /\ nStray = 0
    /\ filePath = [s \in Sessions |-> ""]
    /\ caps = NullCaps
    /\ openDocs = <<>>
    /\ versions = [p \in Paths |-> 0]
    /\ text = 0
    /\ timers = {}
    /\ nSaves = 0
    /\ nServerRequests = 0
    /\ applied = {}
    /\ nNotReady = 0
    /\ convIn = NoConv
    /\ convMid = NoValue
    /\ convOut = NoValue
    /\ hookRequestId = [h \in Hooks |-> 0]
    /\ hookPending = [h \in Hooks |-> {}]
    /\ hookPromise = [h \in Hooks |-> [i \in Ids |-> NoPromise]]
    /\ serverInbox = <<>>
    /\ hookInbound = [h \in Hooks |-> <<>>]
    /\ markers = [p \in Paths |-> 0]
    /\ nPublish = 0
    /\ shown = NoLsp
    /\ lspPort = 0
    /\ thens = {}
    /\ nSelects = 0

\* LspMessageParser.write(chunk) with the next n bytes of stdout
write(n) ==
    /\ n \in 1..Len(wire)
    /\ LET chunk == SubSeq(wire, 1, n)
           r == parse(buffer \o chunk)
       IN  /\ buffer' = r.buffer
           /\ emitted' = emitted \o r.msgs
           /\ loopExceeded' = (loopExceeded \/ r.exceeded)
    /\ wire' = SubSeq(wire, n + 1, Len(wire))
    /\ UNCHANGED stream
    /\ UNCHANGED <<supVars, clientVars, convVars, sharedVars, diagVars, editorVars>>

CodecNext == \E n \in 1..Len(wire) : write(n)

SpecCodec == CodecInit /\ [][CodecNext]_vars

\* a fresh LspManager and a fresh store; no parser input, no session
SupInit ==
    /\ stream = <<>>
    /\ wire = <<>>
    /\ buffer = <<>>
    /\ emitted = <<>>
    /\ loopExceeded = FALSE
    /\ servers = [k \in Keys |-> 0]
    /\ nCalls = 0
    /\ call = [c \in Calls |-> NoCall]
    /\ proc = [c \in Calls |-> "none"]
    /\ wss = [c \in Calls |-> "none"]
    /\ handlers = [c \in Calls |-> FALSE]
    /\ diedEarly = [c \in Calls |-> FALSE]
    /\ quitting = FALSE
    /\ storeServers = [k \in Keys |-> NoInfo]
    /\ stopCalls = [k \in Keys |-> 0]
    /\ conn = [c \in Calls |-> {}]
    /\ received = [c \in Calls |-> [w \in Clients |-> <<>>]]
    /\ nOut = [c \in Calls |-> 0]
    /\ stdin = [c \in Calls |-> <<>>]
    /\ accepted = [c \in Calls |-> <<>>]
    /\ stopSeen = [c \in Calls |-> FALSE]
    /\ nSess = 0
    /\ cur = 0
    /\ ws = [s \in Sessions |-> "none"]
    /\ requestId = 0
    /\ pendingRequests = {}
    /\ req = [i \in Ids |-> NoReq]
    /\ promise = [i \in Ids |-> "none"]
    /\ settles = [i \in Ids |-> 0]
    /\ initialized = FALSE
    /\ providers = <<>>
    /\ sent = [s \in Sessions |-> <<>>]
    /\ answered = {}
    /\ fromServer = [s \in Sessions |-> <<>>]
    /\ handledIds = [s \in Sessions |-> {}]
    /\ nStray = 0
    /\ filePath = [s \in Sessions |-> ""]
    /\ caps = NullCaps
    /\ openDocs = <<>>
    /\ versions = [p \in Paths |-> 0]
    /\ text = 0
    /\ timers = {}
    /\ nSaves = 0
    /\ nServerRequests = 0
    /\ applied = {}
    /\ nNotReady = 0
    /\ convIn = NoConv
    /\ convMid = NoValue
    /\ convOut = NoValue
    /\ hookRequestId = [h \in Hooks |-> 0]
    /\ hookPending = [h \in Hooks |-> {}]
    /\ hookPromise = [h \in Hooks |-> [i \in Ids |-> NoPromise]]
    /\ serverInbox = <<>>
    /\ hookInbound = [h \in Hooks |-> <<>>]
    /\ markers = [p \in Paths |-> 0]
    /\ nPublish = 0
    /\ shown = NoLsp
    /\ lspPort = 0
    /\ thens = {}
    /\ nSelects = 0

SpecSup == SupInit /\ [][SupNext]_vars

SpecBridge == SupInit /\ [][BridgeNext]_vars

\* a freshly rendered hook: all refs at their initial values
ClientInit ==
    /\ stream = <<>>
    /\ wire = <<>>
    /\ buffer = <<>>
    /\ emitted = <<>>
    /\ loopExceeded = FALSE
    /\ servers = [k \in Keys |-> 0]
    /\ nCalls = 0
    /\ call = [c \in Calls |-> NoCall]
    /\ proc = [c \in Calls |-> "none"]
    /\ wss = [c \in Calls |-> "none"]
    /\ handlers = [c \in Calls |-> FALSE]
    /\ diedEarly = [c \in Calls |-> FALSE]
    /\ quitting = FALSE
    /\ storeServers = [k \in Keys |-> NoInfo]
    /\ stopCalls = [k \in Keys |-> 0]
    /\ conn = [c \in Calls |-> {}]
    /\ received = [c \in Calls |-> [w \in Clients |-> <<>>]]
    /\ nOut = [c \in Calls |-> 0]
    /\ stdin = [c \in Calls |-> <<>>]
    /\ accepted = [c \in Calls |-> <<>>]
    /\ stopSeen = [c \in Calls |-> FALSE]
    /\ nSess = 0
    /\ cur = 0
    /\ ws = [s \in Sessions |-> "none"]
    /\ requestId = 0
    /\ pendingRequests = {}
    /\ req = [i \in Ids |-> NoReq]
    /\ promise = [i \in Ids |-> "none"]
    /\ settles = [i \in Ids |-> 0]
    /\ initialized = FALSE
    /\ providers = <<>>
    /\ sent = [s \in Sessions |-> <<>>]
    /\ answered = {}
    /\ fromServer = [s \in Sessions |-> <<>>]
    /\ handledIds = [s \in Sessions |-> {}]
    /\ nStray = 0
    /\ filePath = [s \in Sessions |-> ""]
    /\ caps = NullCaps
    /\ openDocs = <<>>
    /\ versions = [p \in Paths |-> 0]
    /\ text = 0
    /\ timers = {}
    /\ nSaves = 0
    /\ nServerRequests = 0
    /\ applied = {}
    /\ nNotReady = 0
    /\ convIn = NoConv
    /\ convMid = NoValue
    /\ convOut = NoValue
    /\ hookRequestId = [h \in Hooks |-> 0]
    /\ hookPending = [h \in Hooks |-> {}]
    /\ hookPromise = [h \in Hooks |-> [i \in Ids |-> NoPromise]]
    /\ serverInbox = <<>>
    /\ hookInbound = [h \in Hooks |-> <<>>]
    /\ markers = [p \in Paths |-> 0]
    /\ nPublish = 0
    /\ shown = NoLsp
    /\ lspPort = 0
    /\ thens = {}
    /\ nSelects = 0

SpecClient == ClientInit /\ [][ClientNext]_vars

\* a value about to be converted; no parser input, no instance, no session
ConvInit ==
    /\ stream = <<>>
    /\ wire = <<>>
    /\ buffer = <<>>
    /\ emitted = <<>>
    /\ loopExceeded = FALSE
    /\ servers = [k \in Keys |-> 0]
    /\ nCalls = 0
    /\ call = [c \in Calls |-> NoCall]
    /\ proc = [c \in Calls |-> "none"]
    /\ wss = [c \in Calls |-> "none"]
    /\ handlers = [c \in Calls |-> FALSE]
    /\ diedEarly = [c \in Calls |-> FALSE]
    /\ quitting = FALSE
    /\ storeServers = [k \in Keys |-> NoInfo]
    /\ stopCalls = [k \in Keys |-> 0]
    /\ conn = [c \in Calls |-> {}]
    /\ received = [c \in Calls |-> [w \in Clients |-> <<>>]]
    /\ nOut = [c \in Calls |-> 0]
    /\ stdin = [c \in Calls |-> <<>>]
    /\ accepted = [c \in Calls |-> <<>>]
    /\ stopSeen = [c \in Calls |-> FALSE]
    /\ nSess = 0
    /\ cur = 0
    /\ ws = [s \in Sessions |-> "none"]
    /\ requestId = 0
    /\ pendingRequests = {}
    /\ req = [i \in Ids |-> NoReq]
    /\ promise = [i \in Ids |-> "none"]
    /\ settles = [i \in Ids |-> 0]
    /\ initialized = FALSE
    /\ providers = <<>>
    /\ sent = [s \in Sessions |-> <<>>]
    /\ answered = {}
    /\ fromServer = [s \in Sessions |-> <<>>]
    /\ handledIds = [s \in Sessions |-> {}]
    /\ nStray = 0
    /\ filePath = [s \in Sessions |-> ""]
    /\ caps = NullCaps
    /\ openDocs = <<>>
    /\ versions = [p \in Paths |-> 0]
    /\ text = 0
    /\ timers = {}
    /\ nSaves = 0
    /\ nServerRequests = 0
    /\ applied = {}
    /\ nNotReady = 0
    /\ convIn \in ConvInputs
    /\ convMid = NoValue
    /\ convOut = NoValue
    /\ hookRequestId = [h \in Hooks |-> 0]
    /\ hookPending = [h \in Hooks |-> {}]
    /\ hookPromise = [h \in Hooks |-> [i \in Ids |-> NoPromise]]
    /\ serverInbox = <<>>
    /\ hookInbound = [h \in Hooks |-> <<>>]
    /\ markers = [p \in Paths |-> 0]
    /\ nPublish = 0
    /\ shown = NoLsp
    /\ lspPort = 0
    /\ thens = {}
    /\ nSelects = 0

SpecConv == ConvInit /\ [][ConvNext]_vars

\* both hook instances are connected and Ready, nothing is in flight
SharedInit ==
    /\ stream = <<>>
    /\ wire = <<>>
    /\ buffer = <<>>
    /\ emitted = <<>>
    /\ loopExceeded = FALSE
    /\ servers = [k \in Keys |-> 0]
    /\ nCalls = 0
    /\ call = [c \in Calls |-> NoCall]
    /\ proc = [c \in Calls |-> "none"]
    /\ wss = [c \in Calls |-> "none"]
    /\ handlers = [c \in Calls |-> FALSE]
    /\ diedEarly = [c \in Calls |-> FALSE]
    /\ quitting = FALSE
    /\ storeServers = [k \in Keys |-> NoInfo]
    /\ stopCalls = [k \in Keys |-> 0]
    /\ conn = [c \in Calls |-> {}]
    /\ received = [c \in Calls |-> [w \in Clients |-> <<>>]]
    /\ nOut = [c \in Calls |-> 0]
    /\ stdin = [c \in Calls |-> <<>>]
    /\ accepted = [c \in Calls |-> <<>>]
    /\ stopSeen = [c \in Calls |-> FALSE]
    /\ nSess = 0
    /\ cur = 0
    /\ ws = [s \in Sessions |-> "none"]
    /\ requestId = 0
    /\ pendingRequests = {}
    /\ req = [i \in Ids |-> NoReq]
    /\ promise = [i \in Ids |-> "none"]
    /\ settles = [i \in Ids |-> 0]
    /\ initialized = FALSE
    /\ providers = <<>>
    /\ sent = [s \in Sessions |-> <<>>]
    /\ answered = {}
    /\ fromServer = [s \in Sessions |-> <<>>]
    /\ handledIds = [s \in Sessions |-> {}]
    /\ nStray = 0
    /\ filePath = [s \in Sessions |-> ""]
    /\ caps = NullCaps
    /\ openDocs = <<>>
    /\ versions = [p \in Paths |-> 0]
    /\ text = 0
    /\ timers = {}
    /\ nSaves = 0
    /\ nServerRequests = 0
    /\ applied = {}
    /\ nNotReady = 0
    /\ convIn = NoConv
    /\ convMid = NoValue
    /\ convOut = NoValue
    /\ hookRequestId = [h \in Hooks |-> 0]
    /\ hookPending = [h \in Hooks |-> {}]
    /\ hookPromise = [h \in Hooks |-> [i \in Ids |-> NoPromise]]
    /\ serverInbox = <<>>
    /\ hookInbound = [h \in Hooks |-> <<>>]
    /\ markers = [p \in Paths |-> 0]
    /\ nPublish = 0
    /\ shown = NoLsp
    /\ lspPort = 0
    /\ thens = {}
    /\ nSelects = 0

SpecShared == SharedInit /\ [][SharedNext]_vars

\* the panel shows no file yet; no server was started
EditorInit ==
    /\ stream = <<>>
    /\ wire = <<>>
    /\ buffer = <<>>
    /\ emitted = <<>>
    /\ loopExceeded = FALSE
    /\ servers = [k \in Keys |-> 0]
    /\ nCalls = 0
    /\ call = [c \in Calls |-> NoCall]
    /\ proc = [c \in Calls |-> "none"]
    /\ wss = [c \in Calls |-> "none"]
    /\ handlers = [c \in Calls |-> FALSE]
    /\ diedEarly = [c \in Calls |-> FALSE]
    /\ quitting = FALSE
    /\ storeServers = [k \in Keys |-> NoInfo]
    /\ stopCalls = [k \in Keys |-> 0]
    /\ conn = [c \in Calls |-> {}]
    /\ received = [c \in Calls |-> [w \in Clients |-> <<>>]]
    /\ nOut = [c \in Calls |-> 0]
    /\ stdin = [c \in Calls |-> <<>>]
    /\ accepted = [c \in Calls |-> <<>>]
    /\ stopSeen = [c \in Calls |-> FALSE]
    /\ nSess = 0
    /\ cur = 0
    /\ ws = [s \in Sessions |-> "none"]
    /\ requestId = 0
    /\ pendingRequests = {}
    /\ req = [i \in Ids |-> NoReq]
    /\ promise = [i \in Ids |-> "none"]
    /\ settles = [i \in Ids |-> 0]
    /\ initialized = FALSE
    /\ providers = <<>>
    /\ sent = [s \in Sessions |-> <<>>]
    /\ answered = {}
    /\ fromServer = [s \in Sessions |-> <<>>]
    /\ handledIds = [s \in Sessions |-> {}]
    /\ nStray = 0
    /\ filePath = [s \in Sessions |-> ""]
    /\ caps = NullCaps
    /\ openDocs = <<>>
    /\ versions = [p \in Paths |-> 0]
    /\ text = 0
    /\ timers = {}
    /\ nSaves = 0
    /\ nServerRequests = 0
    /\ applied = {}
    /\ nNotReady = 0
    /\ convIn = NoConv
    /\ convMid = NoValue
    /\ convOut = NoValue
    /\ hookRequestId = [h \in Hooks |-> 0]
    /\ hookPending = [h \in Hooks |-> {}]
    /\ hookPromise = [h \in Hooks |-> [i \in Ids |-> NoPromise]]
    /\ serverInbox = <<>>
    /\ hookInbound = [h \in Hooks |-> <<>>]
    /\ markers = [p \in Paths |-> 0]
    /\ nPublish = 0
    /\ shown = NoLsp
    /\ lspPort = 0
    /\ thens = {}
    /\ nSelects = 0

SpecEditor == EditorInit /\ [][EditorNext]_vars

(***************************************************************************)
(* Client session properties                                               *)
(***************************************************************************)
Settled(st) == st \in {"resolved", "rejected"}

\* C1: no step removes an entry from the pending-request table without
\* resolving or rejecting its promise; in particular a request outstanding
\* at teardown is rejected.
C1_TeardownRejectsPending ==
    [][\A i \in pendingRequests :
          i \notin pendingRequests' => Settled(promise'[i])]_vars

\* the shutdown request sent by the cleanup of effect run s (0 = none)
ShutdownIdOf(s) ==
    IF \E i \in Ids : req[i] = [method |-> "shutdown", sess |-> s]
    THEN CHOOSE i \in Ids : req[i] = [method |-> "shutdown", sess |-> s]
    ELSE 0

ExitSent(s) == \E i \in 1..Len(sent[s]) : sent[s][i].method = "exit"

\* C2: once the server's answer to the shutdown request of a torn-down
\* session has reached that session, the exit notification has been sent
\* and the connection is closing or closed.
C2_ShutdownHandshakeCloses ==
    \A s \in Sessions :
        (ShutdownIdOf(s) # 0 /\ ShutdownIdOf(s) \in handledIds[s]) =>
            /\ ws[s] \in {"CLOSING", "CLOSED"}
            /\ ExitSent(s)

\* a step in which ws.onmessage of socket s handles the next server message
\* (the only other step that shortens the queue closes the socket)
OnMessageStep(s) ==
    /\ fromServer[s] # <<>>
    /\ fromServer'[s] = Tail(fromServer[s])
    /\ ws'[s] # "CLOSED"

\* C10: a step of ws.onmessage for a message with id i removes entry i and
\* no other from the pending-request table; if i was pending its promise is
\* resolved, or rejected when the message carries an error, otherwise no
\* promise changes; no other request is touched, and no request ever has
\* its callbacks called twice.
C10_ResponseSettlesMatchingRequest ==
    [][/\ \A i \in Ids : settles'[i] <= 1
       /\ \A s \in Sessions :
            OnMessageStep(s) =>
                LET msg == Head(fromServer[s]) IN
                /\ pendingRequests' = pendingRequests \ {msg.id}
                /\ \A j \in Ids \ {msg.id} :
                      promise'[j] = promise[j] /\ settles'[j] = settles[j]
                /\ IF msg.id \in pendingRequests
                   THEN /\ promise[msg.id] = "pending"
                        /\ promise'[msg.id] =
                              (IF msg.err THEN "rejected" ELSE "resolved")
                        /\ settles'[msg.id] = 1
                   ELSE \A j \in {msg.id} \cap Ids :
                            /\ promise'[j] = promise[j]
                            /\ settles'[j] = settles[j]
      ]_vars

\* two feature requests are outstanding and the later one has been answered
\* first, while an unmatched response has been handled as well
C10_Witness ==
    \E i, j \in Ids :
        /\ i < j
        /\ req[i].method = "feature" /\ req[j].method = "feature"
        /\ i \in pendingRequests /\ promise[i] = "pending"
        /\ Settled(promise[j]) /\ j \notin pendingRequests
        /\ j \in handledIds[req[j].sess]

\* the request ids written to socket s, in the order they were written
RequestIdsOn(s) ==
    LET reqs == SelectSeq(sent[s], LAMBDA m : m.id # 0 /\ m.method # "reply") IN
    [i \in 1..Len(reqs) |-> reqs[i].id]

\* C11: the ids of the requests a hook instance writes are strictly
\* increasing, on each connection and from one effect run to the next, none
\* exceeds the counter, and every outstanding id is an id issued so far.
C11_RequestIdsStrictlyIncrease ==
    /\ \A s \in Sessions :
          \A i, j \in 1..Len(RequestIdsOn(s)) :
              i < j => RequestIdsOn(s)[i] < RequestIdsOn(s)[j]
    /\ \A s, u \in Sessions :
          s < u => \A i \in 1..Len(RequestIdsOn(s)), j \in 1..Len(RequestIdsOn(u)) :
                      RequestIdsOn(s)[i] < RequestIdsOn(u)[j]
    /\ \A s \in Sessions :
          \A i \in 1..Len(RequestIdsOn(s)) : RequestIdsOn(s)[i] <= requestId
    /\ \A i \in pendingRequests : i <= requestId

\* a second effect run has sent its initialize request after the first one
\* sent requests and was torn down with a shutdown request
C11_Witness ==
    /\ nSess >= 2
    /\ \E i \in 1..Len(sent[1]) : sent[1][i].method = "shutdown"
    /\ \E i \in 1..Len(sent[2]) : sent[2][i].method = "initialize"

\* a step in which the close event of socket s is handled
CloseStep(s) == ws[s] # "CLOSED" /\ ws'[s] = "CLOSED"

\* C12: when a connection closes, initializedRef becomes false, every entry
\* of the pending-request table is rejected and the table is emptied; when
\* it is the connection of the mounted effect run, no request of that run
\* stays unsettled; the subprocesses, the registry and the store are as
\* they were.
C12_CloseRejectsAllPending ==
    [][\A s \in Sessions :
          CloseStep(s) =>
              /\ ~initialized'
              /\ pendingRequests' = {}
              /\ \A i \in pendingRequests :
                    promise'[i] = "rejected" /\ settles'[i] = 1
              /\ cur = s =>
                    \A i \in Ids : req[i].sess = s => Settled(promise'[i])
              /\ UNCHANGED supVars
      ]_vars

\* the connection of a mounted, Ready effect run has dropped while a
\* feature request the server never answered was outstanding
C12_Witness ==
    \E s \in Sessions, i \in Ids :
        /\ cur = s /\ ws[s] = "CLOSED" /\ ~initialized
        /\ \E k \in 1..Len(sent[s]) : sent[s][k].method = "initialized"
        /\ req[i] = [method |-> "feature", sess |-> s]
        /\ i \notin answered /\ nStray = 0
        /\ promise[i] = "rejected" /\ pendingRequests = {}

\* C13: when ws.onmessage handles an error-carrying response whose id is in
\* the pending-request table, that request is rejected and removed; every
\* other request, every socket, initializedRef, the open documents and their
\* versions, the providers and what has been sent stay as they were.
C13_ErrorResponseRejectsOnlyMatching ==
    [][\A s \in Sessions :
          (OnMessageStep(s) /\ Head(fromServer[s]).err
             /\ Head(fromServer[s]).id \in pendingRequests) =>
              LET id == Head(fromServer[s]).id IN
              /\ promise'[id] = "rejected"
              /\ pendingRequests' = pendingRequests \ {id}
              /\ \A j \in Ids \ {id} : promise'[j] = promise[j]
              /\ UNCHANGED <<ws, initialized, openDocs, versions, providers,
                             caps, sent, timers>>
      ]_vars

\* in a Ready session with an open document, one feature request has been
\* rejected by an error response while another is still outstanding
C13_Witness ==
    \E s \in Sessions, i, j \in Ids :
        /\ nSess = 1 /\ cur = s /\ ws[s] = "OPEN" /\ initialized
        /\ nStray = 0 /\ openDocs # <<>>
        /\ req[i].method = "feature" /\ i \in handledIds[s]
        /\ promise[i] = "rejected"
        /\ j # i /\ j \in pendingRequests /\ promise[j] = "pending"

\* positions in the log of socket s of the notifications `method` about p
DocMessages(s, method, p) ==
    {i \in 1..Len(sent[s]) : sent[s][i].method = method /\ sent[s][i].path = p}

\* C14: however often openDocument is called for a path, a connection
\* carries at most one didOpen for it; a path in openDocsRef is there once,
\* with exactly one didOpen sent, and its version is 1 as long as no
\* didChange has been sent for it.
C14_OpenIsIdempotent ==
    \A s \in Sessions, p \in Paths :
        /\ Cardinality(DocMessages(s, "didOpen", p)) <= 1
        /\ (cur = s /\ has(openDocs, p)) =>
              /\ Cardinality(DocMessages(s, "didOpen", p)) = 1
              /\ Cardinality({i \in 1..Len(openDocs) : openDocs[i] = p}) = 1
              /\ DocMessages(s, "didChange", p) = {} => versions[p] = 1

\* the active document was opened at Ready and a provider has since been
\* called for the same path: one didOpen, version still 1
C14_Witness ==
    \E s \in Sessions : \E j \in 1..Len(sent[s]) :
        /\ cur = s /\ has(openDocs, filePath[s])
        /\ sent[s][j].method = "feature" /\ sent[s][j].path = filePath[s]
        /\ \E i \in DocMessages(s, "didOpen", filePath[s]) : i < j - 1
        /\ versions[filePath[s]] = 1

\* a step in which the debounce timer tm expires (the cleanup, the only
\* other step that removes a timer, unmounts the effect run)
FlushStep(tm) == tm \in timers /\ timers' = timers \ {tm} /\ cur' = cur

\* C15: at most one debounce timer is pending, and it carries the text of
\* the latest change; a change sends no didChange by itself; when the timer
\* expires in a Ready session with the document open, exactly one didChange
\* is sent, with the latest text and the document's version plus 1.
C15_DebouncedChangeCoalesces ==
    [][/\ Cardinality(timers') <= 1
       /\ \A tm \in timers' : tm.text = text' /\ tm.sess = cur'
       /\ text' # text =>
             /\ versions' = versions
             /\ \A s \in Sessions :
                   SelectSeq(sent'[s], LAMBDA m : m.method = "didChange")
                      = SelectSeq(sent[s], LAMBDA m : m.method = "didChange")
       /\ \A tm \in timers :
             (FlushStep(tm) /\ initialized /\ has(openDocs, tm.path)) =>
                 /\ sent' = [sent EXCEPT ![cur] =
                               Append(@, notification("didChange", tm.path,
                                                      versions[tm.path] + 1, text))]
                 /\ versions' = [versions EXCEPT ![tm.path] = @ + 1]
                 /\ timers' = {}
      ]_vars

\* two changes were made within one debounce window of a Ready session and
\* the timer has expired: one didChange, with the text of the second change
C15_Witness ==
    \E s \in Sessions :
        /\ cur = s /\ initialized /\ text = 2 /\ timers = {}
        /\ \E i \in 1..Len(sent[s]) :
              /\ sent[s][i] = notification("didChange", filePath[s], 2, 2)
              /\ DocMessages(s, "didChange", filePath[s]) = {i}
              /\ \E k \in DocMessages(s, "didOpen", filePath[s]) :
                    /\ k < i
                    /\ sent[s][k].text = 0

\* the didOpen, didChange and didClose notifications about p written to
\* socket s, in order
SyncMessages(s, p) ==
    SelectSeq(sent[s], LAMBDA m : m.path = p
                          /\ m.method \in {"didOpen", "didChange", "didClose"})

\* C16: on every connection and for every path, a didOpen carries version 1
\* and starts the document (nothing before it, or a didClose), and a
\* didChange follows a didOpen or didChange with exactly its version plus 1;
\* versionRef holds an entry exactly for the open documents, equal to the
\* last version sent; once the effect run is torn down no document is open
\* and no version is kept.
C16_VersionsIncreaseByOne ==
    /\ \A s \in Sessions, p \in Paths :
          LET ms == SyncMessages(s, p) IN
          /\ \A k \in 1..Len(ms) :
                /\ ms[k].method = "didOpen" =>
                      /\ ms[k].version = 1
                      /\ k = 1 \/ ms[k - 1].method = "didClose"
                /\ ms[k].method = "didChange" =>
                      /\ k > 1
                      /\ ms[k - 1].method \in {"didOpen", "didChange"}
                      /\ ms[k].version = ms[k - 1].version + 1
          /\ (cur = s /\ has(openDocs, p)) =>
                /\ ms # <<>>
                /\ versions[p] = ms[Len(ms)].version
    /\ \A p \in Paths : has(openDocs, p) <=> versions[p] # 0
    /\ cur = 0 => openDocs = <<>>

\* a document was opened, changed (version 2) and closed by one effect run
\* and has been opened again, at version 1, by the next
C16_Witness ==
    \E p \in Paths :
        /\ nSess = 2 /\ cur = 2 /\ versions[p] = 1
        /\ \E i, j \in 1..Len(sent[1]) :
              /\ i < j
              /\ sent[1][i].method = "didChange" /\ sent[1][i].path = p
              /\ sent[1][i].version = 2
              /\ sent[1][j].method = "didClose" /\ sent[1][j].path = p
        /\ DocMessages(2, "didOpen", p) # {}

\* C17: on every connection, a document notification is preceded by the
\* initialized notification, and a didChange, didSave or didClose about a
\* path is preceded by a didOpen for that path with no didClose for it in
\* between.
C17_DocumentMessagesOnlyWhenReadyAndOpen ==
    \A s \in Sessions : \A k \in 1..Len(sent[s]) :
        sent[s][k].method \in DocMethods =>
            /\ \E j \in 1..(k - 1) : sent[s][j].method = "initialized"
            /\ sent[s][k].method # "didOpen" =>
                  \E i \in DocMessages(s, "didOpen", sent[s][k].path) :
                      /\ i < k
                      /\ \A c \in DocMessages(s, "didClose", sent[s][k].path) :
                            c < i \/ c >= k

\* a connection carries a didChange and a didSave for the active document,
\* after the initialized notification and the didOpen, while another path
\* is not open and has no notification
C17_Witness ==
    \E s \in Sessions : \E p \in Paths :
        /\ cur = s /\ initialized /\ nSaves = 1
        /\ DocMessages(s, "didChange", p) # {}
        /\ DocMessages(s, "didSave", p) # {}
        /\ \E q \in Paths :
              ~has(openDocs, q) /\ \A k \in 1..Len(sent[s]) : sent[s][k].path # q

\* positions in the log of socket s of the messages with method `method`
Messages(s, method) == {i \in 1..Len(sent[s]) : sent[s][i].method = method}

\* C18: the first message on every connection is the initialize request;
\* an initialized notification is there at most once, only when that request
\* has been resolved, and before every didOpen; initializedRef is true,
\* documents are open and providers are registered only for the mounted
\* effect run and only when its initialized notification has been sent.
C18_HandshakeOrder ==
    /\ \A s \in Sessions :
          /\ sent[s] # <<>> => sent[s][1].method = "initialize"
          /\ Messages(s, "initialize") \subseteq {1}
          /\ Cardinality(Messages(s, "initialized")) <= 1
          /\ \A j \in Messages(s, "initialized") :
                /\ promise[sent[s][1].id] = "resolved"
                /\ \A k \in Messages(s, "didOpen") : j < k
    /\ (initialized \/ openDocs # <<>> \/ providers # <<>>) =>
          /\ cur # 0
          /\ Messages(cur, "initialized") # {}
          /\ \A i \in 1..Len(providers) : providers[i].sess = cur
    /\ initialized => has(openDocs, filePath[cur])

\* a session is Ready: initialize, initialized and the didOpen of the active
\* document were sent in this order and a provider is registered
C18_Witness ==
    \E s \in Sessions :
        /\ cur = s /\ initialized /\ providers # <<>>
        /\ Len(sent[s]) >= 3
        /\ sent[s][1].method = "initialize"
        /\ sent[s][2].method = "initialized"
        /\ sent[s][3] = notification("didOpen", filePath[s], 1, text)

\* effect runs that have been torn down
TornDown == {s \in Sessions : s <= nSess /\ cur # s}

\* C19: no didOpen, didChange or didSave follows a didClose on a connection;
\* a torn-down effect run has no debounce timer left, and if its socket was
\* open at teardown (it sent shutdown) every document it had opened got its
\* didClose before the shutdown request.
C19_TeardownClosesDocumentsAndCancelsChange ==
    \A s \in Sessions :
        /\ \A c \in Messages(s, "didClose") : \A j \in 1..Len(sent[s]) :
              j > c => sent[s][j].method \notin {"didOpen", "didChange", "didSave"}
        /\ s \in TornDown =>
              /\ \A tm \in timers : tm.sess # s
              /\ \A sh \in Messages(s, "shutdown") : \A p \in Paths :
                    \A i \in DocMessages(s, "didOpen", p) :
                        \E c \in DocMessages(s, "didClose", p) : i < c /\ c < sh

\* the only effect run so far was torn down on an open socket while a change
\* made after its didOpen was waiting for the debounce timer: the log ends
\* with didClose and shutdown and holds no didChange
C19_Witness ==
    /\ nSess = 1 /\ 1 \in TornDown /\ text = 1 /\ timers = {}
    /\ DocMessages(1, "didOpen", filePath[1]) # {}
    /\ \A i \in DocMessages(1, "didOpen", filePath[1]) : sent[1][i].text = 0
    /\ Messages(1, "didChange") = {}
    /\ Messages(1, "didClose") # {}
    /\ Messages(1, "shutdown") = {Len(sent[1])}

\* positions in disposablesRef.current of the registrations effect run s
\* made for feature f
Registrations(s, f) ==
    {i \in 1..Len(providers) : providers[i] = [sess |-> s, feature |-> f]}

\* C20: no effect run ever holds two registrations for one feature; before
\* a handshake response is stored nothing is registered; once it is stored,
\* the mounted effect run holds exactly one registration for each feature
\* the response advertised and none for any other.
C20_ProvidersMatchCapabilities ==
    /\ \A s \in Sessions, f \in FeatureSet :
          Cardinality(Registrations(s, f)) <= 1
    /\ caps = NullCaps => providers = <<>>
    /\ caps # NullCaps =>
          /\ cur # 0
          /\ \A f \in FeatureSet :
                Cardinality(Registrations(cur, f)) = (IF f \in caps THEN 1 ELSE 0)
          /\ Len(providers) = Cardinality(caps)

\* the handshake response advertised hover and no completion: one hover
\* provider and no completion provider are registered
C20_Witness ==
    /\ cur # 0 /\ initialized /\ caps = {"hover"}
    /\ Cardinality(Registrations(cur, "hover")) = 1
    /\ Registrations(cur, "completion") = {}

\* C21: a torn-down effect run holds no provider registration, and after
\* its shutdown request it writes neither an initialized notification nor a
\* didOpen; initializedRef, open documents and registrations exist only
\* while an effect run is mounted, whatever responses arrive later.
C21_TornDownSessionStaysDown ==
    /\ \A s \in TornDown :
          /\ \A i \in 1..Len(providers) : providers[i].sess # s
          /\ \A sh \in Messages(s, "shutdown") : \A k \in 1..Len(sent[s]) :
                k > sh => sent[s][k].method \notin {"initialized", "didOpen"}
    /\ cur = 0 => ~initialized /\ openDocs = <<>> /\ providers = <<>>

\* an effect run was torn down while its initialize request was
\* outstanding, and ws.onmessage has since handled the server's response
C21_Witness ==
    \E s \in TornDown, i \in Ids :
        /\ req[i] = [method |-> "initialize", sess |-> s]
        /\ i \in handledIds[s]
        /\ Messages(s, "shutdown") # {}
        /\ Messages(s, "initialized") = {}
        /\ promise[i] = "pending"

\* C22: every workspace/applyEdit request that the open socket of the
\* mounted session handles is answered with one reply carrying its id,
\* whatever requests are outstanding; its edit is pushed into the model of
\* its path when the editor holds one, and changes nothing otherwise.
C22_ApplyEditAppliedAndAcknowledged ==
    [][\A s \in Sessions :
          (/\ OnMessageStep(s)
           /\ s = cur
           /\ ws[s] = "OPEN"
           /\ Head(fromServer[s]).method = "workspace/applyEdit")
          => LET msg == Head(fromServer[s]) IN
             /\ sent'[s] = Append(sent[s], reply(msg.id))
             /\ msg.path \in Paths
                   => [sock |-> s, id |-> msg.id, path |-> msg.path] \in applied'
             /\ msg.path \notin Paths => applied' = applied /\ text' = text]_vars

\* the requests that provider calls have sent
FeatureRequests == {i \in Ids : req[i].method = "feature"}

RequestsOf(s) == {i \in Ids : req[i].sess = s}

\* C30: a close event or a handled message of the socket of an earlier
\* effect run leaves the mounted run's table entries, the promises of its
\* requests, its open documents and its Ready flag as they were.
C30_EarlierSessionDoesNotTouchLater ==
    [][\A s \in Sessions :
          (/\ cur # 0 /\ s < cur
           /\ CloseStep(s) \/ OnMessageStep(s))
          => /\ initialized' = initialized
             /\ pendingRequests' \cap RequestsOf(cur)
                   = pendingRequests \cap RequestsOf(cur)
             /\ \A i \in RequestsOf(cur) : promise'[i] = promise[i]
             /\ openDocs' = openDocs /\ versions' = versions]_vars

\* C36: after its teardown has cleared the markers, an effect run sets no
\* markers again: a step of ws.onmessage on the connection of a torn-down
\* run leaves the markers of every model as they were.
C36_TornDownSessionSetsNoMarkers ==
    [][\A s \in Sessions :
          (s \in TornDown /\ OnMessageStep(s)) => markers' = markers]_vars

\* positions in the log of connection s, before position j, of the didOpen
\* and didChange notifications for path p
SyncedBefore(s, j, p) ==
    {i \in 1..(j - 1) : /\ sent[s][i].method \in {"didOpen", "didChange"}
                        /\ sent[s][i].path = p}

\* C38: a didSave never overtakes a pending change: the text every didSave
\* carries is the text of the latest didOpen or didChange sent before it for
\* the same document.
C38_SaveCarriesSyncedText ==
    \A s \in Sessions : \A j \in 1..Len(sent[s]) :
        sent[s][j].method = "didSave" =>
            LET before == SyncedBefore(s, j, sent[s][j].path) IN
            /\ before # {}
            /\ sent[s][j].text =
                  sent[s][CHOOSE i \in before : \A k \in before : k <= i].text

\* C39: whenever the session is Ready, the document of the mounted effect run
\* is open and the run has no debounce timer pending, the text of the latest
\* didOpen or didChange on its connection for that document is the buffer's
\* current text.
C39_ServerTextCurrentWhenIdle ==
    (/\ cur # 0 /\ initialized /\ has(openDocs, filePath[cur])
     /\ \A tm \in timers : tm.sess # cur)
    => LET synced == SyncedBefore(cur, Len(sent[cur]) + 1, filePath[cur]) IN
       /\ synced # {}
       /\ sent[cur][CHOOSE i \in synced : \A k \in synced : k <= i].text = text

\* an edit made during the handshake whose timer expired before Ready: the
\* session is Ready and idle, the didOpen carried the edited text and no
\* didChange was sent
C39_Witness ==
    /\ cur # 0 /\ initialized /\ has(openDocs, filePath[cur])
    /\ \A tm \in timers : tm.sess # cur
    /\ text >= 1
    /\ \E j \in 1..Len(sent[cur]) :
          /\ sent[cur][j].method = "didOpen"
          /\ sent[cur][j].path = filePath[cur]
          /\ sent[cur][j].text = text
    /\ \A j \in 1..Len(sent[cur]) : sent[cur][j].method # "didChange"

(***************************************************************************)
(* Supervisor properties                                                   *)
(***************************************************************************)
StartCompleted(c) == call[c].pc \in {"replied", "done"}

\* the instance whose port call c returned
InstanceOf(c) == IF call[c].reused # 0 THEN call[c].reused ELSE c

LiveInstances(k) ==
    {c \in Calls : call[c].key = k
                    /\ (proc[c] = "running" \/ wss[c] \in {"binding", "listening"})}

\* C3: whatever the interleaving of start calls on a key, the key never has
\* more than one subprocess or listener, and the calls that returned the
\* port of a listener that is still up returned the same port.
C3_StartIdempotentPerKey ==
    \A k \in Keys :
        /\ Cardinality(LiveInstances(k)) <= 1
        /\ \A c1, c2 \in Calls :
              (/\ call[c1].key = k /\ call[c2].key = k
               /\ StartCompleted(c1) /\ StartCompleted(c2)
               /\ wss[InstanceOf(c1)] = "listening"
               /\ wss[InstanceOf(c2)] = "listening")
              => call[c1].port = call[c2].port

\* C4: once start has returned, an exited subprocess has its listener
\* closed and is out of the registry, and a subprocess or listener that is
\* still up is the registered instance of its key.
C4_ExitTearsDownInstance ==
    \A c \in Calls :
        (StartCompleted(c) /\ call[c].reused = 0) =>
            /\ proc[c] = "exited" => (wss[c] = "closed" /\ servers[call[c].key] # c)
            /\ (proc[c] = "running" \/ wss[c] = "listening")
                  => servers[call[c].key] = c

\* C5: an instance whose subprocess failed to spawn or exited before the
\* listener was live is not in the registry once start has completed, and
\* no later start returns its port instead of spawning afresh.
C5_EarlyExitLeavesNoInstance ==
    \A c \in Calls :
        /\ (diedEarly[c] /\ StartCompleted(c)) => servers[call[c].key] # c
        /\ call[c].reused # 0 => ~diedEarly[call[c].reused]

\* C24: a start call whose spawn failed does not complete with a port (its
\* caller gets the failure, and the store does not show the key running on
\* the port of that instance).
C24_SpawnFailureReported ==
    \A c \in Calls :
        proc[c] = "failed" =>
            /\ (StartCompleted(c) /\ call[c].reused = 0) => call[c].port = 0
            /\ storeServers[call[c].key] # [status |-> "running", port |-> PortOf(c)]

\* instances of key k that the 'exit' handler has torn down: subprocess
\* exited, listener closed, key deleted
TornDownInstances(k) ==
    {i \in Calls : /\ call[i].key = k /\ proc[i] = "exited" /\ handlers[i]
                   /\ wss[i] = "closed" /\ servers[k] # i}

\* C25: when the instance of a key has been torn down by the exit of its
\* subprocess (no stop is in flight and the key has no registered instance),
\* the next startServer for the key spawns a subprocess of its own and does
\* not yield the port of a torn-down instance.
C25_StartAfterCrashSpawnsFresh ==
    [][\A k \in Keys :
          (/\ startServer(k, TRUE)
           /\ TornDownInstances(k) # {}
           /\ servers[k] = 0
           /\ stopCalls[k] = 0)
          => /\ proc'[nCalls'] = "running"
             /\ \A i \in TornDownInstances(k) : call'[nCalls'].port # PortOf(i)]_vars

\* a step of LspManager.stop for key k (stopServer is its only caller here)
StopStep(k) == stopCalls'[k] = stopCalls[k] + 1

\* C26: stop on a registered key leaves the instance with no connected
\* client, its subprocess killed (or already gone), its listener closed and
\* the key out of the registry; on an unregistered key it changes nothing of
\* the supervisor; in both cases the subprocess, listener, clients and
\* registry entry of every other instance and key are as before.
C26_StopFrame ==
    [][\A k \in Keys :
          StopStep(k) =>
             /\ servers[k] # 0 =>
                   LET i == servers[k] IN
                   /\ conn'[i] = {}
                   /\ proc'[i] \notin {"running"}
                   /\ proc[i] = "running" => proc'[i] = "killed"
                   /\ wss'[i] = "closed"
                   /\ servers'[k] = 0
             /\ servers[k] = 0 => UNCHANGED <<servers, proc, wss, conn>>
             /\ \A j \in Calls : j # servers[k] =>
                   proc'[j] = proc[j] /\ wss'[j] = wss[j] /\ conn'[j] = conn[j]
             /\ \A k2 \in Keys : k2 # k => servers'[k2] = servers[k2]
             /\ UNCHANGED <<handlers, call, trafficVars>>]_vars

\* a stop has run on a key whose instance was running (it is killed, closed,
\* unregistered and without clients) while another key's instance is up with
\* a client of its own
C26_Witness ==
    \E k \in Keys, i, j \in Calls :
        /\ call[i].key = k /\ call[j].key # k /\ call[j].key # ""
        /\ stopCalls[k] > 0
        /\ servers[k] = 0 /\ proc[i] = "killed" /\ wss[i] = "closed" /\ conn[i] = {}
        /\ servers[call[j].key] = j /\ proc[j] = "running" /\ conn[j] # {}

\* LspManager.status(languageId, projectRoot); port 0 stands for null
status(k) ==
    IF servers[k] = 0 THEN [running |-> FALSE, port |-> 0]
    ELSE [running |-> TRUE, port |-> PortOf(servers[k])]

\* ports on which key k has a running subprocess with a live listener
LivePorts(k) ==
    {PortOf(c) : c \in {i \in Calls : /\ call[i].key = k /\ proc[i] = "running"
                                      /\ wss[i] = "listening"}}

\* C27: status(k) reports running with port p exactly when key k has a
\* running subprocess whose listener is live on p, and not running with no
\* port otherwise; a start call holds a port only once the listener it
\* belongs to has been live.
C27_StatusMatchesLiveInstance ==
    /\ \A k \in Keys :
          /\ status(k).running => LivePorts(k) = {status(k).port}
          /\ ~status(k).running => LivePorts(k) = {} /\ status(k).port = 0
    /\ \A c \in Calls :
          call[c].port # 0 => wss[InstanceOf(c)] \in {"listening", "closed"}

\* C28: the n-th message the parser of an instance decodes is appended, as
\* decoded, to what each client connected at that moment has received, and
\* to nothing else, so every client receives the messages in decode order;
\* nothing but a decoded message changes what a client has received; a
\* client closing its socket leaves the subprocess, the listener, the other
\* clients and everything received as they were.
C28_BroadcastInDecodeOrder ==
    [][\A c \in Calls :
          /\ nOut'[c] # nOut[c] =>
                /\ nOut'[c] = nOut[c] + 1
                /\ \A w \in Clients :
                      received'[c][w] =
                         IF w \in conn[c] THEN Append(received[c][w], nOut'[c])
                         ELSE received[c][w]
          /\ nOut'[c] = nOut[c] => received'[c] = received[c]
          /\ \A w \in Clients :
                clientClose(c, w) =>
                   /\ UNCHANGED <<proc, wss, servers, stdin, nOut, received>>
                   /\ conn'[c] = conn[c] \ {w}]_vars

\* client 2 received the first message and left; client 1 went on to
\* receive the second
C28_Witness ==
    \E c \in Calls :
        /\ received[c][1] = <<1, 2>>
        /\ received[c][2] = <<1>>
        /\ conn[c] = {1}

\* the frames of the accepted messages, one after the other
RECURSIVE framesOf(_)
framesOf(msgs) ==
    IF msgs = <<>> THEN <<>>
    ELSE encodeMessage(Head(msgs).json) \o framesOf(Tail(msgs))

\* C29: the input of each subprocess is the frames of the messages its
\* bridge accepted while the input was writable, one whole frame per
\* message in the order of arrival whichever clients sent them: decoding the
\* input gives back exactly those messages in that order with nothing left.
C29_OneFramePerClientMessage ==
    \A c \in Calls :
        /\ stdin[c] = framesOf(accepted[c])
        /\ parse(stdin[c]).msgs =
              [i \in 1..Len(accepted[c]) |-> accepted[c][i].json]
        /\ parse(stdin[c]).buffer = <<>>

\* two clients have sent one message each, one of them with a character
\* that takes two bytes
C29_Witness ==
    \E c \in Calls :
        /\ Len(accepted[c]) >= 2
        /\ accepted[c][1].client # accepted[c][2].client
        /\ accepted[c][1].json = <<233, 97>>

\* a step in which the 'exit' event of the subprocess of instance c is
\* delivered
ExitStep(c) == proc[c] # "exited" /\ proc'[c] = "exited"

\* C33: the exit of a subprocess that stop had killed leaves the instance
\* that has replaced it under the same key as it was: still registered, its
\* listener in the same state, and status of the key unchanged.
C33_OldExitSparesNewInstance ==
    [][\A c, n \in Calls :
          (/\ ExitStep(c) /\ proc[c] = "killed"
           /\ n # c /\ call[n].key = call[c].key
           /\ servers[call[n].key] = n)
          => /\ servers'[call[n].key] = n
             /\ wss'[n] = wss[n]
             /\ status(call[n].key)' = status(call[n].key)]_vars

\* C34: when a stop or stopAll ran for a key while a start of that key was
\* waiting for its listener, no start of the key followed, and both the
\* start (whose subprocess survived the wait) and the stop have completed,
\* the key has no running subprocess and
\* no listener, and status reports it not running.
C34_StopDuringStartNotLost ==
    \A c \in Calls :
        (/\ stopSeen[c] /\ StartCompleted(c) /\ ~diedEarly[c]
         /\ stopCalls[call[c].key] = 0)
        => /\ LiveInstances(call[c].key) = {}
           /\ ~status(call[c].key).running

(***************************************************************************)
(* Codec properties                                                        *)
(***************************************************************************)
fullBytes == streamBytes(stream)
fedLen == Len(fullBytes) - Len(wire)

IsSingleFrame == Len(stream) = 1 /\ stream[1].kind = "plain"
IsPlainStream == \A i \in 1..Len(stream) : stream[i].kind = "plain"

\* number of bytes of the first i items
cumLen(i) == Len(streamBytes(SubSeq(stream, 1, i)))

\* number of leading items that have been fed completely
completeItems ==
    CHOOSE i \in 0..Len(stream) :
        cumLen(i) <= fedLen /\ (i = Len(stream) \/ cumLen(i + 1) > fedLen)

\* the length an encoded frame declares in its header
declaredLength(bytes) ==
    parseInt(CONTENT_LENGTH_RE(toAscii(
        subarray(bytes, 0, indexOf(bytes, HEADER_SEPARATOR)))))

\* C6: once all bytes of encodeMessage(payload) have been fed to a fresh
\* parser, in whatever chunks, exactly one message has been emitted and it
\* equals the payload; the declared length is the UTF-8 byte count.
C6_FramingRoundTrip ==
    (IsSingleFrame /\ wire = <<>>) =>
        /\ emitted = <<stream[1].payload>>
        /\ buffer = <<>>
        /\ declaredLength(fullBytes) = Len(utf8Encode(stream[1].payload))

C6_Witness ==
    /\ IsSingleFrame /\ wire = <<>>
    /\ \E i \in 1..Len(stream[1].payload) : stream[1].payload[i] >= 128
    /\ Len(utf8Encode(stream[1].payload)) > Len(stream[1].payload)
    /\ emitted = <<stream[1].payload>>

\* C7: a write that leaves the encoded message incomplete emits nothing,
\* and the write that delivers its last byte emits exactly one message.
C7_PartialFrameSafety ==
    [][IsSingleFrame =>
          /\ (wire' # <<>> => emitted' = <<>>)
          /\ (wire # <<>> /\ wire' = <<>> => emitted = <<>> /\ Len(emitted') = 1)
      ]_vars

\* a message cut inside its body has been fed and nothing was emitted
C7_Witness ==
    /\ IsSingleFrame /\ wire # <<>>
    /\ fedLen > indexOf(fullBytes, HEADER_SEPARATOR) + Len(HEADER_SEPARATOR)
    /\ buffer = SubSeq(fullBytes, 1, fedLen)
    /\ emitted = <<>>

\* C8: for a concatenation of encoded payloads, after every write the
\* emitted messages are exactly the payloads of the frames received in
\* full, in order, and the buffer holds exactly the bytes received of the
\* frame that is not complete yet.
C8_FragmentationAndCoalescing ==
    IsPlainStream =>
        /\ emitted = framePayloads(SubSeq(stream, 1, completeItems))
        /\ buffer = SubSeq(fullBytes, cumLen(completeItems) + 1, fedLen)

C8_Witness ==
    /\ IsPlainStream /\ Len(stream) >= 2
    /\ completeItems = 1 /\ fedLen > cumLen(1)
    /\ Len(emitted) = 1 /\ buffer # <<>>

\* C9: no write runs the parse loop without end, and once the whole stream
\* has been fed every frame has been emitted, whether it follows header
\* blocks without a parseable Content-Length or carries other header lines.
C9_MalformedHeaderSkipped ==
    /\ ~loopExceeded
    /\ wire = <<>> => emitted = framePayloads(stream)

C9_Witness ==
    /\ Len(stream) = 2 /\ wire = <<>>
    /\ stream[1].kind \in BlockKinds
    /\ stream[2].kind \in {"extraBefore", "extraAfter"}
    /\ emitted = <<stream[2].payload>>
    /\ ~loopExceeded

(***************************************************************************)
(* Conversion properties                                                   *)
(***************************************************************************)
\* C31: a position (L, C) with L, C >= 1 becomes the protocol position
\* (L-1, C-1) and comes back as (L, C); a range becomes the protocol range
\* with each end shifted the same way and comes back as the same range.
C31_CoordinateRoundTrip ==
    /\ (convIn.kind = "position" /\ convMid # NoValue) =>
           convMid = [line |-> convIn.v.lineNumber - 1,
                      character |-> convIn.v.column - 1]
    /\ (convIn.kind = "range" /\ convMid # NoValue) =>
           /\ convMid.start = [line |-> convIn.v.startLineNumber - 1,
                               character |-> convIn.v.startColumn - 1]
           /\ convMid.end = [line |-> convIn.v.endLineNumber - 1,
                             character |-> convIn.v.endColumn - 1]
    /\ (convIn.kind \in {"position", "range"} /\ convOut # NoValue) =>
           convOut = convIn.v

\* a position and a range away from the origin have made the round trip
C31_Witness ==
    /\ convOut # NoValue
    /\ \/ convIn.kind = "position" /\ convIn.v.lineNumber = 2 /\ convIn.v.column = 3
       \/ /\ convIn.kind = "range" /\ convIn.v.startLineNumber = 1
          /\ convIn.v.endLineNumber = 2 /\ convIn.v.endColumn = 3

\* C32: a diagnostic with severity 1..4 that was made a marker and then a
\* code-action context diagnostic has its original severity and range.
C32_DiagnosticRoundTrip ==
    (/\ convIn.kind = "diagnostic" /\ convOut # NoValue
     /\ convIn.v.severity \in 1..4)
    => /\ convOut.severity = convIn.v.severity
       /\ convOut.range = convIn.v.range

\* a hint on a range away from the origin has made the round trip
C32_Witness ==
    /\ convIn.kind = "diagnostic" /\ convOut # NoValue
    /\ convIn.v.severity = 4
    /\ convIn.v.range.start.line = 1 /\ convIn.v.range.end.character = 2

(***************************************************************************)
(* Shared bridge properties                                                *)
(***************************************************************************)
\* C35: a request of one hook instance is settled only by the server's
\* response to that request, never by the response to a request of the other
\* instance on the same bridge
C35_SettledOnlyByOwnResponse ==
    \A h \in Hooks : \A id \in Ids :
        hookPromise[h][id].state \in {"resolved", "rejected"}
            => hookPromise[h][id].by = h

(***************************************************************************)
(* Editor panel properties                                                 *)
(***************************************************************************)
\* C37 (as a property of finite runs): when the panel shows a file of key k,
\* the server of k has started (its instance runs, listens and is registered,
\* the store reports it running) and no callback of the auto-start effect is
\* left to run, the panel holds that server's port, whatever was selected
\* while the start was in flight.
C37_ShownServerPortObtained ==
    \A k \in Keys :
        (/\ shown = k /\ thens = {}
         /\ storeServers[k].status = "running"
         /\ servers[k] # 0
         /\ proc[servers[k]] = "running" /\ wss[servers[k]] = "listening")
        => lspPort = PortOf(servers[k])

====
